---- MODULE Spec2Model ----
(***************************************************************************)
(* Doki: per-message decision pipeline of an educational chat assistant.   *)
(*                                                                         *)
(* Texts are sequences of words joined by single spaces (the empty word    *)
(* stands for an extra blank).  Regular expressions and keyword lookups of *)
(* the source are translated word by word: this is exact for texts whose   *)
(* words come from the vocabularies below, none of which contains a pattern *)
(* word as a proper part.  Scores are kept in tenths (2.5 is 25).          *)
(***************************************************************************)
EXTENDS Integers, Sequences, FiniteSets, TLC

VARIABLES
    text,             \* Safety Gate run: the raw input handed to ModerationService.check
    response,         \* Safety Gate run: the ModerationResponse returned, or NoResponse
    settings,         \* Settings, as read from the environment at start
    score,            \* level run: the score handed to ExpertiseLevel.from_score
    level,            \* level run: the level returned, or NoLevel
    backend,          \* the database behind DATABASE_URL: "sqlite" or a database "server"
    requests,         \* request -> the state of its send_message call
    user_expertises,  \* table user_expertises: the committed rows
    messages,         \* table messages: the committed rows
    pending,          \* request -> what its session flushed and has not committed
    collections,      \* user -> the entries of the user's recall collection
    sequences,        \* the last primary key handed out, per table
    seed,             \* the rows of user_expertises at the start
    interactions,     \* mastery run: user -> recordInteraction calls made so far
    rag_initialized,  \* RAGService._initialized: client and embedder are loaded
    hash_seed,        \* the seed of str hashes in the running process
    recalled,         \* recall run: the outcome of the last get_relevant_context
    detection,        \* classifier run: the SubjectDetection returned, or NoDetection
    llm,              \* generator run: LLM_BACKEND, the history and what the HTTP call meets
    generated         \* generator run: what generate returned, or NoGeneration

----------------------------------------------------------------------------
(* Bounds *)

MaxWords == 4
MaxUsers == 2
MaxRequests == 3
MaxConcurrent == 2
MaxCalls == 42
MaxEntries == 2
MaxFaultRequests == 2
MaxHistory == 10
ShortLimit == 3000
MaxDetectWords == 3
MaxHashSeeds == 2

----------------------------------------------------------------------------
(* Texts *)

\* One very long word, used to build inputs around the length limit.
Filler == "<filler>"

\* len(word)
WordLen(w) ==
    CASE w = "" -> 0
      [] w = Filler -> 3990
      [] w \in {"a"} -> 1
      [] w \in {"um", "da", "pH", "ph", "de"} -> 2
      [] w \in {"uma", "DAN", "dan", "olá", "nua"} -> 3
      [] w \in {"como", "para", "sexo", "foto", "Como"} -> 4
      [] w \in {"quero", "bomba", "força", "Bomba", "Força", "campo", "grau?"} -> 5
      [] w \in {"morrer", "escola", "forças", "célula"} -> 6
      [] w \in {"estudar", "equação", "capital", "segundo"} -> 7
      [] w \in {"tutorial", "fabricar", "trabalho", "elétrico", "potência",
                "resolver"} -> 8
      [] w \in {"jailbreak", "Jailbreak", "triângulo", "revolução"} -> 9
      [] OTHER -> 5

\* str.lower() of one word
LowerWord(w) ==
    CASE w = "DAN" -> "dan"
      [] w = "Bomba" -> "bomba"
      [] w = "Jailbreak" -> "jailbreak"
      [] w = "Força" -> "força"
      [] w = "pH" -> "ph"
      [] w = "Como" -> "como"
      [] OTHER -> w

\* str.lower()
Lower(t) == [i \in 1..Len(t) |-> LowerWord(t[i])]

RECURSIVE LStrip(_)
LStrip(t) == IF t # <<>> /\ Head(t) = "" THEN LStrip(Tail(t)) ELSE t

RECURSIVE RStrip(_)
RStrip(t) ==
    IF t # <<>> /\ t[Len(t)] = "" THEN RStrip(SubSeq(t, 1, Len(t) - 1)) ELSE t

\* str.strip(): leading and trailing blanks removed
Strip(t) == RStrip(LStrip(t))

RECURSIVE SumLen(_)
SumLen(t) == IF t = <<>> THEN 0 ELSE WordLen(Head(t)) + SumLen(Tail(t))

\* len(text): the words and the single blanks between them
TextLen(t) == IF t = <<>> THEN 0 ELSE SumLen(t) + Len(t) - 1

----------------------------------------------------------------------------
(* Regular expressions, word by word *)

\* An alternative of a pattern: the words of head, then (when tail is not
\* empty) at most gap arbitrary characters, then the words of tail.
Phrase(ws) == [head |-> ws, gap |-> 0, tail |-> <<>>]
Gapped(h, n, tl) == [head |-> h, gap |-> n, tail |-> tl]

PhraseAt(t, i, p) ==
    /\ i + Len(p) - 1 <= Len(t)
    /\ \A k \in 1..Len(p) : t[i + k - 1] = p[k]

\* Characters between the end of word e and the start of word j (e < j).
GapChars(t, e, j) == 1 + SumLen(SubSeq(t, e + 1, j - 1)) + (j - 1 - e)

MatchAlt(t, alt) ==
    \E i \in 1..Len(t) :
        /\ PhraseAt(t, i, alt.head)
        /\ \/ alt.tail = <<>>
           \/ \E j \in (i + Len(alt.head))..Len(t) :
                /\ PhraseAt(t, j, alt.tail)
                /\ GapChars(t, i + Len(alt.head) - 1, j) <= alt.gap

\* pattern.search(text) is not None, a pattern being the set of its alternatives
Search(pattern, t) == \E alt \in pattern : MatchAlt(t, alt)

\* any(p.search(text) for p in patterns), patterns being a list
SearchAny(patterns, t) == \E k \in 1..Len(patterns) : Search(patterns[k], t)

----------------------------------------------------------------------------
(* Safety Gate: pattern tables *)

SelfHarmPattern ==
    {Phrase(<<"como", "me", "matar">>), Phrase(<<"como", "suicidar">>),
     Phrase(<<"como", "me", "machucar">>),
     Gapped(<<"método">>, 20, <<"suicídio">>),
     Phrase(<<"quero", "morrer">>)}

BLOCKED_PATTERNS == <<
    {Gapped(h, 40, <<o>>) :
        h \in {<<"como", "fazer">>, <<"como", "fabricar">>, <<"como", "sintetizar">>,
               <<"como", "criar">>, <<"tutorial">>, <<"passo", "a", "passo">>},
        o \in {"bomba", "bombo", "explosiv", "arma", "veneno", "droga", "meth",
               "crack", "cocaína"}},
    {Gapped(<<h>>, 30, <<o>>) :
        h \in {"hack", "hackear", "invadir", "crackear"},
        o \in {"sistema", "servidor", "conta", "banco", "rede"}},
    {Phrase(<<"como", "matar">>), Phrase(<<"como", "assassinar">>),
     Phrase(<<"como", "envenenar">>), Phrase(<<"plano", "para", "matar">>),
     Phrase(<<"plano", "de", "assassinato">>)},
    {Phrase(<<"pedofil">>), Phrase(<<"abuso", "infantil">>),
     Phrase(<<"abuso", "de", "menores">>)}
        \cup {Gapped(<<"criança">>, 20, <<o>>) : o \in {"sexual", "nua", "pelada"}},
    {Phrase(<<"terrorism">>), Phrase(<<"terrorist">>),
     Phrase(<<"ataque", "terrorista">>), Phrase(<<"ataque", "suicida">>)}
        \cup {Gapped(<<"explosão">>, 20, <<o>>) : o \in {"shopping", "escola", "evento"}},
    {Phrase(<<"tráfico", "de", "pessoas">>), Phrase(<<"tráfico", "de", "drogas">>),
     Phrase(<<"tráfico", "humano">>), Phrase(<<"escravidão", "moderna">>)},
    {Phrase(<<"lavagem", "de", "dinheiro">>)}
        \cup {Gapped(<<"fraude">>, 20, <<o>>) : o \in {"cartão", "banco", "eleitor"}},
    {Phrase(<<"ransomware">>), Phrase(<<"malware">>), Phrase(<<"keylogger">>),
     Phrase(<<"phishing">>), Phrase(<<"ddos", "attack">>)},
    {Phrase(<<"pornografia">>), Phrase(<<"pornografic">>)}
        \cup {Phrase(<<"conteúdo", o>>) : o \in {"adulto", "sexual", "erótico", "explícito"}},
    {Gapped(<<"sexo", h>>, 20, <<o>>) :
        h \in {"com", "entre"}, o \in {"menor", "criança", "animal"}},
    {Phrase(<<"nude">>), Phrase(<<"nudes">>), Phrase(<<"nudez">>),
     Phrase(<<"foto", "nu">>), Phrase(<<"foto", "nua">>), Phrase(<<"foto", "pelada">>),
     Phrase(<<"foto", "pelado">>), Phrase(<<"conteúdo", "íntimo">>)},
    SelfHarmPattern
>>

\* the patterns listed under "Conteúdo explícito sexual"
SexualContentPatterns == 9..11

STUDY_BLOCK_PATTERNS == <<
    {Gapped(<<"para", h>>, 30, <<o>>) :
        h \in {"estudar", "pesquisa", "trabalho"},
        o \in {"bomba", "bombo", "arma", "veneno", "explosiv"}},
    {Gapped(<<"fins", "acadêmicos">>, 30, <<o>>) : o \in {"hack", "crackear", "invadir"}}
>>

JAILBREAK_PATTERNS == <<
    {Phrase(<<"ignore", a, b>>) :
        a \in {"suas", "as"}, b \in {"instruções", "regras", "diretrizes"}}
        \cup {Phrase(<<"finja", "que", "você", "é">>), Phrase(<<"finja", "que", "não", "tem">>),
              Phrase(<<"finja", "que", "pode">>)},
    {Phrase(<<"modo", "desenvolvedor">>), Phrase(<<"modo", "sem", "restrições">>),
     Phrase(<<"modo", "sem", "filtro">>), Phrase(<<"modo", "desbloqueado">>)},
    {Phrase(<<"dan">>), Phrase(<<"do", "anything", "now">>), Phrase(<<"jailbreak">>),
     Phrase(<<"bypass">>)},
    {Phrase(<<"aja", "como", "uma", "ia", "sem", o>>) :
        o \in {"regras", "limites", "restrições"}},
    {Phrase(<<"sua", "verdadeira", "programação">>), Phrase(<<"sua", "real", "programação">>),
     Phrase(<<"seu", "verdadeiro", "eu">>), Phrase(<<"seu", "real", "eu">>)}
>>

\* The words that contain one of "pornografi", "sexo", "nude", "explícito".
ExplicitMarkerWords ==
    {"pornografia", "pornografic", "sexo", "nude", "nudes", "nudez", "explícito"}

\* any(w in text_clean for w in ["pornografi", "sexo", "nude", "explícito"])
HasExplicitMarker(t) == \E i \in 1..Len(t) : t[i] \in ExplicitMarkerWords

MAX_MESSAGE_LENGTH == 4000

\* Settings.MAX_MESSAGE_LENGTH: its default, and the values the environment
\* may give it
DEFAULT_MAX_MESSAGE_LENGTH == 4000
DefaultSettings == [MAX_MESSAGE_LENGTH |-> DEFAULT_MAX_MESSAGE_LENGTH]
ConfiguredLengths == {ShortLimit, DEFAULT_MAX_MESSAGE_LENGTH}

----------------------------------------------------------------------------
(* Safety Gate: ModerationService.check *)

NoResponse == [result |-> "none", reason |-> "", suggested_response |-> ""]

ModerationResponse(res, why, msg) ==
    [result |-> res, reason |-> why, suggested_response |-> msg]

\* the reason of step 3
BlockedReason(tc) == IF HasExplicitMarker(tc) THEN "explicit" ELSE "crime"

\* check with the self-harm step taken before the jailbreak step
check_selfharm_first(t) ==
    LET tc == Lower(Strip(t)) IN
    IF Search(SelfHarmPattern, tc)
    THEN ModerationResponse("blocked", "self_harm", "RESPONSES.self_harm")
    ELSE IF SearchAny(JAILBREAK_PATTERNS, tc)
    THEN ModerationResponse("blocked", "jailbreak_attempt", "RESPONSES.jailbreak")
    ELSE IF SearchAny(BLOCKED_PATTERNS, tc)
    THEN ModerationResponse("blocked", BlockedReason(tc), "RESPONSES." \o BlockedReason(tc))
    ELSE IF SearchAny(STUDY_BLOCK_PATTERNS, tc)
    THEN ModerationResponse("blocked", "study_bypass_attempt", "RESPONSES.crime")
    ELSE IF TextLen(t) > MAX_MESSAGE_LENGTH
    THEN ModerationResponse("warning", "message_too_long", "too_long_message")
    ELSE ModerationResponse("approved", "", "")

\* check without its step 2: self-harm texts fall to the blocked patterns
check_no_selfharm_step(t) ==
    LET tc == Lower(Strip(t)) IN
    IF SearchAny(JAILBREAK_PATTERNS, tc)
    THEN ModerationResponse("blocked", "jailbreak_attempt", "RESPONSES.jailbreak")
    ELSE IF SearchAny(BLOCKED_PATTERNS, tc)
    THEN ModerationResponse("blocked", BlockedReason(tc), "RESPONSES." \o BlockedReason(tc))
    ELSE IF SearchAny(STUDY_BLOCK_PATTERNS, tc)
    THEN ModerationResponse("blocked", "study_bypass_attempt", "RESPONSES.crime")
    ELSE IF TextLen(t) > MAX_MESSAGE_LENGTH
    THEN ModerationResponse("warning", "message_too_long", "too_long_message")
    ELSE ModerationResponse("approved", "", "")

\* check with the study-pretext step taken before the crime/explicit step
check_study_first(t) ==
    LET tc == Lower(Strip(t)) IN
    IF SearchAny(JAILBREAK_PATTERNS, tc)
    THEN ModerationResponse("blocked", "jailbreak_attempt", "RESPONSES.jailbreak")
    ELSE IF Search(SelfHarmPattern, tc)
    THEN ModerationResponse("blocked", "self_harm", "RESPONSES.self_harm")
    ELSE IF SearchAny(STUDY_BLOCK_PATTERNS, tc)
    THEN ModerationResponse("blocked", "study_bypass_attempt", "RESPONSES.crime")
    ELSE IF SearchAny(BLOCKED_PATTERNS, tc)
    THEN ModerationResponse("blocked", BlockedReason(tc), "RESPONSES." \o BlockedReason(tc))
    ELSE IF TextLen(t) > MAX_MESSAGE_LENGTH
    THEN ModerationResponse("warning", "message_too_long", "too_long_message")
    ELSE ModerationResponse("approved", "", "")

\* ModerationService.check(text)
check(t) ==
    LET tc == Lower(Strip(t)) IN
    IF SearchAny(JAILBREAK_PATTERNS, tc)
    THEN ModerationResponse("blocked", "jailbreak_attempt", "RESPONSES.jailbreak")
    ELSE IF Search(SelfHarmPattern, tc)
    THEN ModerationResponse("blocked", "self_harm", "RESPONSES.self_harm")
    ELSE IF SearchAny(BLOCKED_PATTERNS, tc)
    THEN ModerationResponse("blocked", BlockedReason(tc), "RESPONSES." \o BlockedReason(tc))
    ELSE IF SearchAny(STUDY_BLOCK_PATTERNS, tc)
    THEN ModerationResponse("blocked", "study_bypass_attempt", "RESPONSES.crime")
    ELSE IF TextLen(t) > MAX_MESSAGE_LENGTH
    THEN ModerationResponse("warning", "message_too_long", "too_long_message")
    ELSE ModerationResponse("approved", "", "")

----------------------------------------------------------------------------
(* Subject Classifier: SubjectDetectorService *)

NoTopic == "none"

SUBJECT_TAXONOMY == <<
    [key |-> "matematica", display |-> "Matemática",
     keywords |->
        <<<<"equação">>, <<"função">>, <<"derivada">>, <<"integral">>,
          <<"limite">>, <<"matriz">>, <<"vetor">>, <<"geometria">>,
          <<"trigonometria">>, <<"logaritmo">>, <<"polinômio">>,
          <<"probabilidade">>, <<"estatística">>, <<"álgebra">>,
          <<"cálculo">>, <<"número">>, <<"fração">>, <<"porcentagem">>,
          <<"raiz">>, <<"potência">>, <<"progressão">>, <<"combinatória">>,
          <<"permutação">>>>,
     topics |-> <<
        [key |-> "calculo",
         keywords |->
            <<<<"derivada">>, <<"integral">>, <<"limite">>,
              <<"cálculo", "diferencial">>, <<"cálculo", "integral">>>>],
        [key |-> "algebra",
         keywords |->
            <<<<"equação">>, <<"sistema", "linear">>, <<"matriz">>,
              <<"determinante">>, <<"vetor">>>>],
        [key |-> "geometria",
         keywords |->
            <<<<"triângulo">>, <<"círculo">>, <<"polígono">>, <<"área">>,
              <<"volume">>, <<"perímetro">>>>],
        [key |-> "estatistica",
         keywords |->
            <<<<"média">>, <<"mediana">>, <<"moda">>, <<"desvio", "padrão">>,
              <<"distribuição">>>>]>>],
    [key |-> "fisica", display |-> "Física",
     keywords |->
        <<<<"força">>, <<"energia">>, <<"velocidade">>, <<"aceleração">>,
          <<"massa">>, <<"gravitação">>, <<"eletricidade">>,
          <<"magnetismo">>, <<"onda">>, <<"luz">>, <<"calor">>,
          <<"termodinâmica">>, <<"mecânica">>, <<"óptica">>,
          <<"relatividade">>, <<"quantum">>, <<"partícula">>, <<"pressão">>,
          <<"trabalho">>, <<"potência">>, <<"campo", "elétrico">>,
          <<"campo", "magnético">>, <<"circuito">>>>,
     topics |-> <<
        [key |-> "mecanica",
         keywords |->
            <<<<"força">>, <<"velocidade">>, <<"aceleração">>, <<"trabalho">>,
              <<"energia", "cinética">>>>],
        [key |-> "eletromagnetismo",
         keywords |->
            <<<<"eletricidade">>, <<"magnetismo">>, <<"campo", "elétrico">>,
              <<"circuito">>>>],
        [key |-> "termodinamica",
         keywords |->
            <<<<"calor">>, <<"temperatura">>, <<"entropia">>,
              <<"termodinâmica">>>>],
        [key |-> "optica",
         keywords |->
            <<<<"luz">>, <<"refração">>, <<"reflexão">>, <<"lente">>,
              <<"espelho">>>>]>>],
    [key |-> "quimica", display |-> "Química",
     keywords |->
        <<<<"átomo">>, <<"molécula">>, <<"reação">>, <<"elemento">>,
          <<"tabela", "periódica">>, <<"ligação">>, <<"ácido">>, <<"base">>,
          <<"sal">>, <<"óxido">>, <<"pH">>, <<"mol">>, <<"solução">>,
          <<"concentração">>, <<"oxidação">>, <<"redução">>, <<"orgânica">>,
          <<"inorgânica">>, <<"isômero">>, <<"polímero">>,
          <<"estequiometria">>, <<"equilíbrio", "químico">>, <<"cinética">>>>,
     topics |-> <<
        [key |-> "organica",
         keywords |->
            <<<<"carbono">>, <<"hidrocarboneto">>, <<"álcool">>,
              <<"ácido", "orgânico">>, <<"isômero">>>>],
        [key |-> "inorganica",
         keywords |->
            <<<<"tabela", "periódica">>, <<"ligação", "iônica">>,
              <<"ligação", "covalente">>>>],
        [key |-> "fisicoquimica",
         keywords |->
            <<<<"equilíbrio">>, <<"cinética">>, <<"termodinâmica", "química">>,
              <<"eletroquímica">>>>]>>],
    [key |-> "biologia", display |-> "Biologia",
     keywords |->
        <<<<"célula">>, <<"DNA">>, <<"RNA">>, <<"proteína">>, <<"gene">>,
          <<"cromossomo">>, <<"evolução">>, <<"ecossistema">>,
          <<"fotossíntese">>, <<"respiração", "celular">>, <<"mitose">>,
          <<"meiose">>, <<"vírus">>, <<"bactéria">>, <<"fungo">>,
          <<"animal">>, <<"planta">>, <<"ecologia">>, <<"genética">>,
          <<"metabolismo">>, <<"enzima">>, <<"hormônio">>, <<"tecido">>,
          <<"órgão">>, <<"sistema">>>>,
     topics |-> <<
        [key |-> "genetica",
         keywords |->
            <<<<"DNA">>, <<"gene">>, <<"hereditariedade">>, <<"mutação">>,
              <<"cromossomo">>>>],
        [key |-> "ecologia",
         keywords |->
            <<<<"ecossistema">>, <<"cadeia", "alimentar">>, <<"bioma">>,
              <<"população">>>>],
        [key |-> "citologia",
         keywords |->
            <<<<"célula">>, <<"membrana">>, <<"mitocôndria">>, <<"núcleo">>,
              <<"organela">>>>],
        [key |-> "evolucao",
         keywords |->
            <<<<"Darwin">>, <<"seleção", "natural">>, <<"especiação">>,
              <<"fóssil">>>>]>>],
    [key |-> "historia", display |-> "História",
     keywords |->
        <<<<"guerra">>, <<"revolução">>, <<"império">>, <<"república">>,
          <<"colônia">>, <<"independência">>, <<"ditadura">>,
          <<"democracia">>, <<"feudalismo">>, <<"capitalismo">>,
          <<"socialismo">>, <<"brasil">>, <<"europa">>, <<"antiguidade">>,
          <<"medievalidade">>, <<"renascimento">>, <<"iluminismo">>,
          <<"industrialização">>, <<"segunda", "guerra">>,
          <<"primeira", "guerra">>>>,
     topics |-> <<
        [key |-> "brasil",
         keywords |->
            <<<<"colônia">>, <<"império">>, <<"república">>,
              <<"ditadura", "militar">>, <<"redemocratização">>>>],
        [key |-> "geral",
         keywords |->
            <<<<"antiguidade">>, <<"idade", "média">>, <<"idade", "moderna">>,
              <<"idade", "contemporânea">>>>],
        [key |-> "guerras",
         keywords |->
            <<<<"primeira", "guerra">>, <<"segunda", "guerra">>,
              <<"guerra", "fria">>, <<"guerra", "civil">>>>]>>],
    [key |-> "geografia", display |-> "Geografia",
     keywords |->
        <<<<"clima">>, <<"relevo">>, <<"hidrografia">>, <<"bioma">>,
          <<"urbanização">>, <<"população">>, <<"continente">>, <<"país">>,
          <<"capital">>, <<"latitude">>, <<"longitude">>, <<"mapa">>,
          <<"geopolítica">>, <<"globalização">>, <<"desenvolvimento">>,
          <<"IDH">>, <<"pib">>>>,
     topics |-> <<>>],
    [key |-> "portugues", display |-> "Português",
     keywords |->
        <<<<"verbo">>, <<"substantivo">>, <<"adjetivo">>, <<"advérbio">>,
          <<"preposição">>, <<"conjunção">>, <<"oração">>, <<"sujeito">>,
          <<"predicado">>, <<"crase">>, <<"acento">>, <<"ortografia">>,
          <<"redação">>, <<"dissertação">>, <<"narração">>, <<"coesão">>,
          <<"coerência">>, <<"texto">>, <<"literatura">>, <<"poesia">>,
          <<"romance">>, <<"conto">>, <<"interpretação">>>>,
     topics |-> <<
        [key |-> "gramatica",
         keywords |->
            <<<<"verbo">>, <<"substantivo">>, <<"crase">>, <<"concordância">>,
              <<"regência">>>>],
        [key |-> "literatura",
         keywords |->
            <<<<"romantismo">>, <<"realismo">>, <<"modernismo">>, <<"poesia">>,
              <<"prosa">>>>],
        [key |-> "redacao",
         keywords |->
            <<<<"dissertação">>, <<"argumentação">>, <<"coesão">>,
              <<"coerência">>>>]>>],
    [key |-> "ingles", display |-> "Inglês",
     keywords |->
        <<<<"verb">>, <<"tense">>, <<"grammar">>, <<"vocabulary">>,
          <<"present">>, <<"past">>, <<"future">>, <<"reading">>,
          <<"writing">>, <<"speaking">>, <<"listening">>,
          <<"phrasal", "verb">>, <<"conditional">>, <<"modal">>,
          <<"passive", "voice">>, <<"reported", "speech">>>>,
     topics |-> <<>>],
    [key |-> "programacao", display |-> "Programação",
     keywords |->
        <<<<"código">>, <<"função">>, <<"variável">>, <<"loop">>,
          <<"array">>, <<"objeto">>, <<"classe">>, <<"python">>,
          <<"javascript">>, <<"java">>, <<"c++">>, <<"sql">>, <<"html">>,
          <<"css">>, <<"react">>, <<"algoritmo">>,
          <<"estrutura", "de", "dados">>, <<"banco", "de", "dados">>,
          <<"api">>, <<"recursão">>, <<"debug">>, <<"compilador">>,
          <<"framework">>, <<"biblioteca">>>>,
     topics |-> <<
        [key |-> "python",
         keywords |->
            <<<<"python">>, <<"django">>, <<"flask">>, <<"pandas">>, <<"numpy">>>>],
        [key |-> "web",
         keywords |->
            <<<<"html">>, <<"css">>, <<"javascript">>, <<"react">>,
              <<"api", "rest">>>>],
        [key |-> "estrutura_dados",
         keywords |->
            <<<<"array">>, <<"lista">>, <<"pilha">>, <<"fila">>, <<"árvore">>,
              <<"grafo">>>>],
        [key |-> "banco_dados",
         keywords |->
            <<<<"sql">>, <<"mysql">>, <<"postgresql">>, <<"nosql">>,
              <<"mongodb">>>>]>>],
    [key |-> "filosofia", display |-> "Filosofia",
     keywords |->
        <<<<"ética">>, <<"moral">>, <<"epistemologia">>, <<"ontologia">>,
          <<"metafísica">>, <<"lógica">>, <<"sócrates">>, <<"platão">>,
          <<"aristóteles">>, <<"kant">>, <<"nietzsche">>, <<"descartes">>,
          <<"existencialismo">>, <<"empirismo">>, <<"racionalismo">>,
          <<"fenomenologia">>>>,
     topics |-> <<>>],
    [key |-> "matematica_financeira", display |-> "Matemática Financeira",
     keywords |->
        <<<<"juros">>, <<"desconto">>, <<"amortização">>, <<"investimento">>,
          <<"rentabilidade">>, <<"taxa">>, <<"capitalização">>,
          <<"anuidade">>, <<"VP">>, <<"VPL">>, <<"TIR">>, <<"payback">>>>,
     topics |-> <<>>]
>>

\* Vocabulary words that contain a keyword as a proper part (keyword, word).
ProperParts ==
    {<<"força", "forças">>, <<"evolução", "revolução">>, <<"api", "capital">>}

\* keyword in word
WordContains(w, k) == w = k \/ <<k, w>> \in ProperParts

\* keyword in text_lower
KeywordIn(kw, t) ==
    \E i \in 1..Len(t) :
        /\ i + Len(kw) - 1 <= Len(t)
        /\ IF Len(kw) = 1
           THEN WordContains(t[i], kw[1])
           ELSE \A k \in 1..Len(kw) : t[i + k - 1] = kw[k]

\* found: the subject's keywords that occur in the text, in list order
Found(data, tl) == SelectSeq(data.keywords, LAMBDA kw : KeywordIn(kw, tl))

\* score = min(len(found) / max(len(keywords) * 0.1, 1), 1.0), as the fraction
\* num / den with den = max(len(keywords), 10)
ScoreDen(data) == IF Len(data.keywords) > 10 THEN Len(data.keywords) ELSE 10
ScoreNum(data, tl) ==
    IF 10 * Len(Found(data, tl)) > ScoreDen(data)
    THEN ScoreDen(data) ELSE 10 * Len(Found(data, tl))

\* max(scores, key=scores.__getitem__) over the subjects that have a score, in
\* taxonomy order: the first subject that no other subject beats
RECURSIVE BestFrom(_, _, _)
BestFrom(k, best, tl) ==
    IF k > Len(SUBJECT_TAXONOMY) THEN best
    ELSE LET d == SUBJECT_TAXONOMY[k] IN
         IF Found(d, tl) = <<>> THEN BestFrom(k + 1, best, tl)
         ELSE IF best = 0 THEN BestFrom(k + 1, k, tl)
         ELSE LET b == SUBJECT_TAXONOMY[best] IN
              IF ScoreNum(d, tl) * ScoreDen(b) > ScoreNum(b, tl) * ScoreDen(d)
              THEN BestFrom(k + 1, k, tl)
              ELSE BestFrom(k + 1, best, tl)

\* the confidence without its cap
ConfidenceUncapped(data, tl) == (2000 * ScoreNum(data, tl)) \div ScoreDen(data)

\* confidence = min(scores[best] * 2, 0.99), in thousandths (rounded down)
Confidence(data, tl) ==
    LET c == (2000 * ScoreNum(data, tl)) \div ScoreDen(data) IN
    IF c > 990 THEN 990 ELSE c

\* _detect_topic: the first topic one of whose keywords occurs in the text
RECURSIVE TopicFrom(_, _, _)
TopicFrom(topics, k, tl) ==
    IF k > Len(topics) THEN NoTopic
    ELSE IF \E i \in 1..Len(topics[k].keywords) : KeywordIn(topics[k].keywords[i], tl)
    THEN topics[k].key
    ELSE TopicFrom(topics, k + 1, tl)

\* _detect_topic looking through the topics of every subject
detect_topic_any_subject(subject, tl) ==
    LET hit == {k \in 1..Len(SUBJECT_TAXONOMY) :
                   TopicFrom(SUBJECT_TAXONOMY[k].topics, 1, tl) # NoTopic}
    IN IF hit = {} THEN NoTopic
       ELSE TopicFrom(SUBJECT_TAXONOMY[CHOOSE k \in hit :
                         \A j \in hit : k <= j].topics, 1, tl)

detect_topic(subject, tl) ==
    IF \E k \in 1..Len(SUBJECT_TAXONOMY) : SUBJECT_TAXONOMY[k].key = subject
    THEN LET d == SUBJECT_TAXONOMY[CHOOSE k \in 1..Len(SUBJECT_TAXONOMY) :
                                       SUBJECT_TAXONOMY[k].key = subject]
         IN TopicFrom(d.topics, 1, tl)
    ELSE NoTopic

\* detect with the topic looked up in every subject before the scores are
\* looked at
detect_topic_first(t) ==
    LET tl == Lower(t)
        best == BestFrom(1, 0, tl)
        hit == {k \in 1..Len(SUBJECT_TAXONOMY) :
                   TopicFrom(SUBJECT_TAXONOMY[k].topics, 1, tl) # NoTopic}
        topic == IF hit = {} THEN NoTopic
                 ELSE TopicFrom(SUBJECT_TAXONOMY[CHOOSE k \in hit :
                                   \A j \in hit : k <= j].topics, 1, tl)
    IN IF best = 0
       THEN [subject |-> "geral", topic |-> topic, confidence |-> 0,
             keywords_found |-> <<>>]
       ELSE [subject |-> SUBJECT_TAXONOMY[best].key,
             topic |-> detect_topic(SUBJECT_TAXONOMY[best].key, tl),
             confidence |-> Confidence(SUBJECT_TAXONOMY[best], tl),
             keywords_found |-> Found(SUBJECT_TAXONOMY[best], tl)]

\* detect with the last of the subjects that share the highest score
detect_last_on_tie(t) ==
    LET tl == Lower(t)
        scored == {k \in 1..Len(SUBJECT_TAXONOMY) : Found(SUBJECT_TAXONOMY[k], tl) # <<>>}
        top == {k \in scored : \A j \in scored :
                   ScoreNum(SUBJECT_TAXONOMY[j], tl) * ScoreDen(SUBJECT_TAXONOMY[k])
                     <= ScoreNum(SUBJECT_TAXONOMY[k], tl) * ScoreDen(SUBJECT_TAXONOMY[j])}
        best == CHOOSE k \in top : \A j \in top : j <= k
    IN IF scored = {}
       THEN [subject |-> "geral", topic |-> NoTopic, confidence |-> 0,
             keywords_found |-> <<>>]
       ELSE [subject |-> SUBJECT_TAXONOMY[best].key,
             topic |-> detect_topic(SUBJECT_TAXONOMY[best].key, tl),
             confidence |-> Confidence(SUBJECT_TAXONOMY[best], tl),
             keywords_found |-> Found(SUBJECT_TAXONOMY[best], tl)]

\* SubjectDetectorService.detect(text)
detect(t) ==
    LET tl == Lower(t)
        best == BestFrom(1, 0, tl)
    IN IF best = 0
       THEN [subject |-> "geral", topic |-> NoTopic, confidence |-> 0,
             keywords_found |-> <<>>]
       ELSE [subject |-> SUBJECT_TAXONOMY[best].key,
             topic |-> detect_topic(SUBJECT_TAXONOMY[best].key, tl),
             confidence |-> Confidence(SUBJECT_TAXONOMY[best], tl),
             keywords_found |-> Found(SUBJECT_TAXONOMY[best], tl)]

\* str.capitalize() of the subject keys the model uses
Capitalize(s) == IF s = "geral" THEN "Geral" ELSE s

\* SubjectDetectorService.get_display_name(subject_key)
get_display_name(subject) ==
    IF \E k \in 1..Len(SUBJECT_TAXONOMY) : SUBJECT_TAXONOMY[k].key = subject
    THEN SUBJECT_TAXONOMY[CHOOSE k \in 1..Len(SUBJECT_TAXONOMY) :
                              SUBJECT_TAXONOMY[k].key = subject].display
    ELSE Capitalize(subject)

----------------------------------------------------------------------------
(* Mastery Tracker: ExpertiseLevel and ExpertiseService; scores in tenths *)

SCORE_PER_INTERACTION == 25
MAX_SCORE == 1000
EXPERT_THRESHOLD == 700
ADVANCED_THRESHOLD == 400
INTERMEDIATE_THRESHOLD == 150

\* from_score with the boundary values on the lower side
from_score_strict(s) ==
    IF s > EXPERT_THRESHOLD THEN "especialista"
    ELSE IF s > ADVANCED_THRESHOLD THEN "avançado"
    ELSE IF s > INTERMEDIATE_THRESHOLD THEN "intermediário"
    ELSE "iniciante"

\* ExpertiseLevel.from_score(score)
from_score(s) ==
    IF s >= EXPERT_THRESHOLD THEN "especialista"
    ELSE IF s >= ADVANCED_THRESHOLD THEN "avançado"
    ELSE IF s >= INTERMEDIATE_THRESHOLD THEN "intermediário"
    ELSE "iniciante"

NoRow == [id |-> 0]
Raised(what) == [raised |-> what]

\* select(UserExpertise).where(user_id == u, subject == s) over the rows a
\* session sees
SelectExpertise(rows, u, s) == {x \in rows : x.user_id = u /\ x.subject = s}

\* Result.scalar_one_or_none(): no row, the row, or MultipleResultsFound
scalar_one_or_none(found) ==
    IF found = {} THEN NoRow
    ELSE IF Cardinality(found) = 1 THEN CHOOSE x \in found : TRUE
    ELSE Raised("MultipleResultsFound")

IsRow(x) == "id" \in DOMAIN x /\ x.id # 0
IsRaised(x) == "raised" \in DOMAIN x

\* update_expertise, first branch: the record of a first interaction
NewExpertise(id, u, s, tp) ==
    [id |-> id, user_id |-> u, subject |-> s, topic |-> tp,
     score |-> SCORE_PER_INTERACTION, interaction_count |-> 1]

\* the second branch without the clamp
TouchedUnclamped(row, tp) ==
    [row EXCEPT !.score = row.score + SCORE_PER_INTERACTION,
                !.interaction_count = row.interaction_count + 1,
                !.topic = IF tp # NoTopic THEN tp ELSE row.topic]

\* the second branch adding the increment twice
TouchedTwice(row, tp) ==
    [row EXCEPT !.score = IF row.score + 2 * SCORE_PER_INTERACTION > MAX_SCORE
                          THEN MAX_SCORE ELSE row.score + 2 * SCORE_PER_INTERACTION,
                !.interaction_count = row.interaction_count + 1,
                !.topic = IF tp # NoTopic THEN tp ELSE row.topic]

\* update_expertise, second branch: the record after one more interaction
Touched(row, tp) ==
    [row EXCEPT !.score = IF row.score + SCORE_PER_INTERACTION > MAX_SCORE
                          THEN MAX_SCORE ELSE row.score + SCORE_PER_INTERACTION,
                !.interaction_count = row.interaction_count + 1,
                !.topic = IF tp # NoTopic THEN tp ELSE row.topic]

\* f"{score:.0f}": the score rounded to a whole number, halves to the even one
FormatScore(s) ==
    LET q == s \div 10
        r == s % 10
    IN IF r > 5 \/ (r = 5 /\ q % 2 = 1) THEN q + 1 ELSE q

NewLearner(subject) == [kind |-> "new_learner", subject |-> subject]
Template(lv, display, count, shown) ==
    [kind |-> "template", level |-> lv, display |-> display,
     count |-> count, score |-> shown]
EmptyContext == [kind |-> "empty"]

\* get_expertise_context_for_prompt, given the result of its select
expertise_context_for_prompt(expertise, subject) ==
    IF IsRaised(expertise) THEN expertise
    ELSE IF ~IsRow(expertise) THEN NewLearner(subject)
    ELSE Template(from_score(expertise.score), get_display_name(subject),
                  expertise.interaction_count, FormatScore(expertise.score))

----------------------------------------------------------------------------
(* Safety Gate run: one text, one call of check *)

GateVocabulary ==
    {"", "jailbreak", "DAN", "quero", "morrer", "tutorial", "bomba", "para",
     "estudar", "sexo", "força"}

ScenarioBomb ==
    <<"como", "fabricar", "uma", "bomba", "para", "um", "trabalho", "da", "escola">>

\* a text that every step of the gate would block
ScenarioEverything ==
    <<"jailbreak", "quero", "morrer", "tutorial", "para", "estudar", "bomba">>

ScenarioTexts ==
    {ScenarioBomb,
     ScenarioEverything,
     <<"para", "trabalho", "da", "escola", "bomba">>,
     <<"foto", "nua">>,
     <<"nudes">>,
     <<Filler, "estudar", "a">>,
     <<Filler, "força", "força">>,
     <<Filler, "", "tutorial", "bomba">>}

GateTexts == UNION {[1..n -> GateVocabulary] : n \in 0..MaxWords} \cup ScenarioTexts

GateInit ==
    /\ text \in GateTexts
    /\ response = NoResponse
    /\ settings \in [MAX_MESSAGE_LENGTH : ConfiguredLengths]

GateIdle ==
    /\ text = <<>>
    /\ response = NoResponse
    /\ settings = DefaultSettings

Check ==
    /\ response = NoResponse
    /\ response' = check(text)
    /\ UNCHANGED <<text, settings>>

----------------------------------------------------------------------------
(* Level run: one score, one call of from_score *)

NoLevel == "none"

LevelInit ==
    /\ score \in 0..MAX_SCORE
    /\ level = NoLevel

LevelIdle ==
    /\ score = 0
    /\ level = NoLevel

FromScore ==
    /\ level = NoLevel
    /\ level' = from_score(score)
    /\ UNCHANGED score

----------------------------------------------------------------------------
(* The stores *)

Users == 1..MaxUsers
Requests == 1..MaxRequests

NoSession == [inTxn |-> FALSE, expertises |-> {}, messages |-> {}]

IdleRequest ==
    [pc |-> "idle", user_id |-> 0, message |-> <<>>, brain |-> [blocked |-> FALSE],
     response_text |-> "", expertise |-> NoRow, reply |-> [status |-> 0],
     ops |-> <<>>, error |-> ""]

StoresEmpty ==
    /\ user_expertises = {}
    /\ seed = {}
    /\ interactions = [u \in Users |-> 0]
    /\ messages = {}
    /\ collections = [u \in Users |-> {}]
    /\ sequences = [expertises |-> 0, messages |-> 0]

PipelineIdle ==
    /\ backend = "sqlite"
    /\ requests = [r \in Requests |-> IdleRequest]
    /\ pending = [r \in Requests |-> NoSession]

RECURSIVE MaxId(_)
MaxId(rows) ==
    IF rows = {} THEN 0
    ELSE LET x == CHOOSE y \in rows : TRUE
             m == MaxId(rows \ {x})
         IN IF x.id > m THEN x.id ELSE m

\* The primary key of a new row: SQLite takes the largest rowid in the table
\* plus one, a database server the next value of the table's sequence.
NextId(visible, seq) == IF backend = "sqlite" THEN MaxId(visible) + 1 ELSE seq + 1

----------------------------------------------------------------------------
(* Mastery run: recordInteraction called again and again, one unit of work  *)
(* (select, change, flush, commit) after the other                          *)

MasteryTopics == {NoTopic, "mecanica", "optica"}

TotalInteractions ==
    LET RECURSIVE Sum(_)
        Sum(rows) == IF rows = {} THEN 0
                     ELSE LET x == CHOOSE y \in rows : TRUE
                          IN x.interaction_count + Sum(rows \ {x})
    IN Sum(user_expertises)

\* ExpertiseService.update_expertise(db, user_id, subject, topic) on the rows
\* the session sees: the rows after its flush
update_expertise(rows, u, s, tp, newId) ==
    LET expertise == scalar_one_or_none(SelectExpertise(rows, u, s)) IN
    IF ~IsRow(expertise)
    THEN rows \cup {NewExpertise(newId, u, s, tp)}
    ELSE (rows \ {expertise}) \cup {Touched(expertise, tp)}

RecordInteraction(u, s, tp) ==
    /\ TotalInteractions < MaxCalls
    /\ ~IsRaised(scalar_one_or_none(SelectExpertise(user_expertises, u, s)))
    /\ user_expertises' =
          update_expertise(user_expertises, u, s, tp,
                           NextId(user_expertises, sequences.expertises))
    /\ sequences' = [sequences EXCEPT !.expertises = MaxId(user_expertises')]
    /\ interactions' = [interactions EXCEPT ![u] = @ + 1]
    /\ UNCHANGED <<messages, collections, seed>>

----------------------------------------------------------------------------
(* Context Recall: RAGService; distances and similarities in ten-thousandths *)

NoSubject == "none"
RECALL_LIMIT == 5
RELEVANCE_FLOOR == 3000

\* The distances the embedding may put between a query and a stored document.
DistanceValues == {2000, 6996, 8000}

\* round(similarity, 3), in thousandths: halves go to the even neighbour
Round3(s) ==
    LET q == s \div 10
        r == s % 10
    IN IF r > 5 \/ (r = 5 /\ q % 2 = 1) THEN q + 1 ELSE q

\* sorted(contexts, key=similarity, reverse=True), equal ones by entry id
RECURSIVE SortContexts(_)
SortContexts(cs) ==
    IF cs = {} THEN <<>>
    ELSE LET top == CHOOSE c \in cs :
                      \A d \in cs : \/ d.similarity < c.similarity
                                    \/ d.similarity = c.similarity /\ d.id >= c.id
         IN <<top>> \o SortContexts(cs \ {top})

\* the contexts built from the query results S with distances dist
Contexts(S, dist) ==
    SortContexts({[id |-> e.id, subject |-> e.subject,
                   similarity |-> Round3(10000 - dist[e])] :
                  e \in {x \in S : 10000 - dist[x] > RELEVANCE_FLOOR}})

\* get_relevant_context querying without its where filter
get_relevant_context_unfiltered(entries, subject, n) ==
    IF entries = {} THEN {<<>>}
    ELSE LET m == IF n < Cardinality(entries) THEN n ELSE Cardinality(entries)
         IN UNION {{Contexts(S, dist) : dist \in [S -> DistanceValues]} :
                   S \in {T \in SUBSET entries : Cardinality(T) = m}}

\* get_relevant_context(user_id, query, subject, n_results): every result the
\* embedding can lead to, over the entries of the user's collection
get_relevant_context(entries, subject, n) ==
    IF entries = {} THEN {<<>>}
    ELSE LET cands == {e \in entries : subject = NoSubject \/ e.subject = subject}
             m == IF n < Cardinality(entries) THEN n ELSE Cardinality(entries)
             k == IF m < Cardinality(cands) THEN m ELSE Cardinality(cands)
         IN UNION {{Contexts(S, dist) : dist \in [S -> DistanceValues]} :
                   S \in {T \in SUBSET cands : Cardinality(T) = k}}

\* The questions of the runs, numbered.
Questions ==
    <<<<"força">>, <<"olá">>, <<"jailbreak">>, <<"o", "que", "é", "força">>,
      <<"o", "que", "é", "átomo">>>>

QuestionCode(question) ==
    IF \E i \in 1..Len(Questions) : Questions[i] = question
    THEN CHOOSE i \in 1..Len(Questions) : Questions[i] = question
    ELSE 0

\* hash(question): the same number for the same string while the process
\* runs; str hashes are salted with a seed drawn when the process starts.
\* Written as a negative number, apart from the message ids.
str_hash(question) == 0 - (hash_seed * 10 + QuestionCode(question))

\* f"msg_{message_id}" if message_id else f"msg_{hash(question)}"
DocId(question, message_id) ==
    IF message_id # 0 THEN message_id ELSE str_hash(question)

\* add_interaction(...): upsert of the entry under its document id
add_interaction(entries, question, answer, subject, tp, message_id) ==
    LET doc_id == DocId(question, message_id) IN
    {e \in entries : e.id # doc_id}
        \cup {[id |-> doc_id, subject |-> subject, topic |-> tp,
               question |-> question, answer |-> answer]}

\* What can go wrong in a call of RAGService: nothing, the first-use
\* initialisation (client, embedding model), the vector store, the embedding.
RecallFaults == {"none", "init", "store", "embed"}

\* _ensure_initialized() under a fault: does it raise
InitRaises(fault) == fault = "init" /\ ~rag_initialized

Outcome(raised, contexts, calls) ==
    [raised |-> raised, contexts |-> contexts, calls |-> calls]

\* get_relevant_context embedding the query before it counts the collection
RecallOutcomesEmbedFirst(entries, subject, n, fault) ==
    IF InitRaises(fault) THEN {Outcome(TRUE, <<>>, <<"initialize">>)}
    ELSE IF fault = "embed" THEN {Outcome(FALSE, <<>>, <<"encode">>)}
    ELSE IF fault = "store" THEN {Outcome(FALSE, <<>>, <<"encode", "count">>)}
    ELSE IF entries = {} THEN {Outcome(FALSE, <<>>, <<"encode", "count">>)}
    ELSE {Outcome(FALSE, c, <<"encode", "count", "query">>) :
             c \in get_relevant_context(entries, subject, n)}

\* get_relevant_context as a whole: _ensure_initialized() stands before the
\* try and raises to the caller; inside the try every exception gives [].
\* calls: the calls made to the collection and the embedder.
RecallOutcomes(entries, subject, n, fault) ==
    IF InitRaises(fault) THEN {Outcome(TRUE, <<>>, <<"initialize">>)}
    ELSE IF fault = "store" THEN {Outcome(FALSE, <<>>, <<"count">>)}
    ELSE IF entries = {} THEN {Outcome(FALSE, <<>>, <<"count">>)}
    ELSE IF fault = "embed" THEN {Outcome(FALSE, <<>>, <<"count", "encode">>)}
    ELSE {Outcome(FALSE, c, <<"count", "encode", "query">>) :
             c \in get_relevant_context(entries, subject, n)}

\* add_interaction as a whole: nothing in it catches; a fault raises to the
\* caller and the collection stays as it was
RememberRaises(fault) == InitRaises(fault) \/ fault \in {"store", "embed"}

----------------------------------------------------------------------------
(* Recall run: add_interaction and get_relevant_context on one user's       *)
(* collection, the process restarted in between                             *)

NoRecall == [raised |-> FALSE, contexts |-> <<>>, calls |-> <<>>]
HashSeeds == 1..MaxHashSeeds
RecallSubjects == {"fisica", "quimica"}
RecallQuestions == {Questions[4], Questions[5]}
RecallAnswers == {"answer", "apology"}
RecallMessageIds == {0, 1}

RecallInit ==
    /\ collections = [u \in Users |-> {}]
    /\ rag_initialized = FALSE
    /\ hash_seed \in HashSeeds
    /\ recalled = NoRecall

\* add_interaction(1, question, answer, subject, None, message_id)
Remember(question, answer, subject, message_id, fault) ==
    /\ Cardinality(add_interaction(collections[1], question, answer, subject,
                                   NoTopic, message_id)) <= MaxEntries
    /\ IF RememberRaises(fault)
       THEN UNCHANGED <<collections, rag_initialized>>
       ELSE /\ collections' = [collections EXCEPT ![1] =
                  add_interaction(@, question, answer, subject, NoTopic, message_id)]
            /\ rag_initialized' = TRUE
    /\ recalled' = NoRecall
    /\ UNCHANGED hash_seed

\* get_relevant_context(1, query, subject, 5)
Recall(subject, fault) ==
    /\ \E out \in RecallOutcomes(collections[1], subject, RECALL_LIMIT, fault) :
          /\ recalled' = out
          /\ rag_initialized' = (rag_initialized \/ ~out.raised)
    /\ UNCHANGED <<collections, hash_seed>>

\* The server process ends and a new one starts on the same CHROMA_PATH.
Restart(newSeed) ==
    /\ hash_seed' = newSeed
    /\ rag_initialized' = FALSE
    /\ recalled' = NoRecall
    /\ UNCHANGED collections

----------------------------------------------------------------------------
(* Brain: prompt assembly *)

\* format_rag_context(contexts): at most three contexts, each with its
\* similarity as a percentage
format_rag_context(contexts) ==
    [i \in 1..(IF Len(contexts) < 3 THEN Len(contexts) ELSE 3) |->
        [id |-> contexts[i].id, pct |-> contexts[i].similarity \div 10]]

\* build_system_prompt(expertise_context, rag_context)
build_system_prompt(expertise_context, rag_context) ==
    [profile |-> IF expertise_context = EmptyContext
                 THEN [kind |-> "default_profile"] ELSE expertise_context,
     history |-> IF rag_context = <<>> THEN <<[id |-> 0, pct |-> 0]>> ELSE rag_context]

----------------------------------------------------------------------------
(* The chat endpoint: one request is one unit of work with its own session  *)

ChatMessageMinLength == 1
ChatMessageMaxLength == 4000

\* ChatMessageRequest.message without its max_length
ValidMessageNoMax(t) == TextLen(t) >= ChatMessageMinLength

\* ChatMessageRequest.message: Field(min_length=1, max_length=4000)
ValidMessage(t) == TextLen(t) >= ChatMessageMinLength /\ TextLen(t) <= ChatMessageMaxLength

PipelineTexts ==
    {<<"força">>, <<"olá">>, <<"jailbreak">>, <<Filler, "força", "força">>}

\* The rows of user_expertises a session sees: the committed ones and its own
\* flushed ones.
ViewExpertises(r) ==
    {x \in user_expertises : \A y \in pending[r].expertises : y.id # x.id}
        \cup pending[r].expertises

ViewMessages(r) ==
    {x \in messages : \A y \in pending[r].messages : y.id # x.id}
        \cup pending[r].messages

AllMessages == messages \cup UNION {pending[q].messages : q \in Requests}
AllExpertises == user_expertises \cup UNION {pending[q].expertises : q \in Requests}

\* A flush that writes needs SQLite's write lock, which a session holds from
\* its first write to its commit or rollback.
CanWrite(r) ==
    backend = "sqlite" => \A q \in Requests \ {r} : ~pending[q].inTxn

\* On a database server an UPDATE waits while another transaction holds the
\* row.
RowFree(r, id) ==
    backend = "server" =>
        \A q \in Requests \ {r} : \A y \in pending[q].expertises : y.id # id

Step(r, pc) == [requests EXCEPT ![r].pc = pc]

\* get_db: an exception leaving the endpoint rolls the session back; ops are
\* the steps the request had completed
FailAfter(r, err, ops) ==
    /\ requests' = [requests EXCEPT ![r] =
          [IdleRequest EXCEPT !.pc = "failed", !.error = err,
                              !.user_id = requests[r].user_id,
                              !.message = requests[r].message,
                              !.reply = [status |-> 500],
                              !.ops = ops]]
    /\ pending' = [pending EXCEPT ![r] = NoSession]

Fail(r, err) == FailAfter(r, err, requests[r].ops)

Message(id, r, role, content, blocked) ==
    [id |-> id, request |-> r, role |-> role, content |-> content,
     was_blocked |-> blocked]

InFlight == {q \in Requests : requests[q].pc \notin {"idle", "rejected", "done", "failed"}}
UsersSeen == {requests[q].user_id : q \in {x \in Requests : requests[x].pc # "idle"}}

\* A request arrives; FastAPI validates it against ChatMessageRequest.
\* Requests are numbered in the order of their arrival and users in the order
\* of their first request.
Receive(r, u, t) ==
    /\ requests[r].pc = "idle"
    /\ \A q \in Requests : q < r => requests[q].pc # "idle"
    /\ \A v \in Users : v < u => v \in UsersSeen
    /\ Cardinality(InFlight) < MaxConcurrent
    /\ requests' = [requests EXCEPT
          ![r].pc = IF ValidMessage(t) THEN "open" ELSE "rejected",
          ![r].user_id = u,
          ![r].message = t,
          ![r].reply = IF ValidMessage(t) THEN [status |-> 0] ELSE [status |-> 422]]
    /\ UNCHANGED <<user_expertises, messages, pending, collections, sequences,
                   rag_initialized>>

\* send_message, lines 33-72: without a conversation_id a conversation is
\* added and flushed, its (empty) history is read, the user's message is added
\* and flushed.  The three steps touch rows of this session only.
OpenExchange(r) ==
    /\ requests[r].pc = "open"
    /\ CanWrite(r)
    /\ LET id == NextId(ViewMessages(r), sequences.messages) IN
       /\ pending' = [pending EXCEPT
             ![r].inTxn = TRUE,
             ![r].messages = @ \cup {Message(id, r, "user", "message", FALSE)}]
       /\ sequences' = [sequences EXCEPT !.messages = id]
    /\ requests' = Step(r, "brain")
    /\ UNCHANGED <<user_expertises, messages, collections, rag_initialized>>

\* SQLite: the write lock is still taken when the busy timeout ends
BusyTimeout(r) ==
    /\ requests[r].pc \in {"open", "blocked_flush", "hook_flush"}
    /\ ~CanWrite(r)
    /\ Fail(r, "OperationalError")
    /\ UNCHANGED <<user_expertises, messages, collections, sequences, rag_initialized>>

\* check and detect on the texts the endpoint is given, computed once
GateVerdicts == [t \in PipelineTexts |-> check(t)]
Detections == [t \in PipelineTexts |-> detect(t)]

\* RAGService._get_collection(user_id) reading one collection for all users
get_collection_shared(u) == UNION {collections[v] : v \in DOMAIN collections}

\* RAGService._get_collection(user_id): the collection user_<id>_knowledge
get_collection(u) == collections[u]

\* process_message, steps 2 and 3 before step 1
ReadStepsGateLast == <<"classify", "recall_read", "gate">>

\* process_message, steps 1 to 3 in the order they are taken
ReadSteps == <<"gate", "classify", "recall_read">>

\* process_message, step 1, returning early on a warning only
ShortCircuitsOnWarning(mod_result) == mod_result.result = "warning"

\* process_message, step 1: any verdict but Approved ends the pipeline
ShortCircuits(mod_result) == mod_result.result # "approved"

\* process_message up to its first await: gate, classifier, recall read; and
\* send_message up to its next flush when the gate does not approve
ProcessMessage(r, fault) ==
    /\ requests[r].pc = "brain"
    /\ LET q == requests[r]
           mod_result == GateVerdicts[q.message]
           detection_ == Detections[q.message]
           general == detection_.subject = "geral"
       IN IF ShortCircuits(mod_result)
          THEN /\ fault = "none"
               /\ requests' = [requests EXCEPT
                     ![r].pc = "blocked_flush",
                     ![r].brain = [blocked |-> TRUE,
                                   response |-> mod_result.suggested_response,
                                   reason |-> mod_result.reason,
                                   subject |-> NoSubject, confidence |-> 0],
                     ![r].ops = <<"gate">>]
               /\ UNCHANGED <<pending, rag_initialized>>
          ELSE \E out \in RecallOutcomes(get_collection(q.user_id),
                              IF general THEN NoSubject ELSE detection_.subject,
                              RECALL_LIMIT, fault) :
                 /\ rag_initialized' = (rag_initialized \/ ~out.raised)
                 /\ IF out.raised
                    THEN Fail(r, "RecallInitError")
                    ELSE /\ requests' = [requests EXCEPT
                               ![r].pc = IF general THEN "generate" ELSE "context",
                               ![r].brain =
                                   [blocked |-> FALSE, subject |-> detection_.subject,
                                    topic |-> detection_.topic,
                                    confidence |-> detection_.confidence,
                                    rag_contexts |-> out.contexts,
                                    expertise_context |-> EmptyContext,
                                    system_prompt |->
                                       build_system_prompt(EmptyContext,
                                           format_rag_context(out.contexts))],
                               ![r].ops = IF general
                                          THEN ReadSteps \o <<"assemble">>
                                          ELSE ReadSteps]
                         /\ UNCHANGED pending
    /\ UNCHANGED <<user_expertises, messages, collections, sequences>>

\* process_message, steps 4 and 5: the mastery read and the prompt
ReadExpertiseContext(r, fault) ==
    /\ requests[r].pc = "context"
    /\ LET q == requests[r]
           expertise ==
              IF fault = "db" THEN Raised("DBError")
              ELSE scalar_one_or_none(
                  SelectExpertise(ViewExpertises(r), q.user_id, q.brain.subject))
           context == expertise_context_for_prompt(expertise, q.brain.subject)
       IN IF IsRaised(expertise)
          THEN Fail(r, expertise.raised)
          ELSE /\ requests' = [requests EXCEPT
                     ![r].pc = "generate",
                     ![r].brain.expertise_context = context,
                     ![r].brain.system_prompt =
                        build_system_prompt(context,
                            format_rag_context(q.brain.rag_contexts)),
                     ![r].ops = @ \o <<"mastery_read", "assemble">>]
               /\ UNCHANGED pending
    /\ UNCHANGED <<user_expertises, messages, collections, sequences, rag_initialized>>

\* What can go wrong in a statement sent to the database: nothing, or the
\* statement raises (connection lost, disk error).
DbFaults == {"none", "db"}

\* post_response_hook handed no answer when the generator apologised
HookAnswerNoApology(response_text) ==
    IF response_text = "apology" THEN "" ELSE response_text

\* post_response_hook(..., answer=response_text, ...)
HookAnswer(response_text) == response_text

GenerationOutcomes == {"answer", "apology"}

Reply(q, text_, id) ==
    [status |-> 200, blocked |-> FALSE, response |-> text_,
     subject |-> q.brain.subject, topic |-> q.brain.topic,
     confidence |-> q.brain.confidence, message_id |-> id]

\* send_message, lines 108-136 up to the next await that reads or waits:
\* doki_generator.generate returns the answer, or its apology on a failure;
\* the answer is added and flushed (the session writes since line 72, the
\* flush cannot wait); post_response_hook starts.  For the generic subject the
\* hook has no mastery write and goes on to add_interaction, after which
\* send_message returns.
Generate(r, outcome, fault) ==
    /\ requests[r].pc = "generate"
    /\ LET q == requests[r]
           id == NextId(ViewMessages(r), sequences.messages)
           flushed == [pending EXCEPT
                ![r].messages = @ \cup {Message(id, r, "assistant", outcome, FALSE)}]
       IN /\ sequences' = [sequences EXCEPT !.messages = id]
          /\ IF q.brain.subject # "geral"
             THEN /\ fault = "none"
                  /\ pending' = flushed
                  /\ requests' = [requests EXCEPT
                        ![r].pc = "hook_select",
                        ![r].response_text = outcome,
                        ![r].reply = [status |-> 0, message_id |-> id],
                        ![r].ops = @ \o <<"generate">>]
                  /\ UNCHANGED <<collections, rag_initialized>>
             ELSE IF RememberRaises(fault)
             THEN /\ FailAfter(r, "RecallError", q.ops \o <<"generate">>)
                  /\ UNCHANGED <<collections, rag_initialized>>
             ELSE /\ pending' = flushed
                  /\ requests' = [requests EXCEPT
                        ![r].pc = "commit",
                        ![r].response_text = outcome,
                        ![r].reply = Reply(q, outcome, id),
                        ![r].ops = @ \o <<"generate", "recall_write">>]
                  /\ collections' = [collections EXCEPT ![q.user_id] =
                        add_interaction(@, q.message, HookAnswer(outcome), "geral",
                                        q.brain.topic, id)]
                  /\ rag_initialized' = TRUE
    /\ UNCHANGED <<user_expertises, messages>>

\* update_expertise: its select returns (lines 52-58)
HookSelect(r) ==
    /\ requests[r].pc = "hook_select"
    /\ LET q == requests[r]
           expertise ==
              scalar_one_or_none(
                  SelectExpertise(ViewExpertises(r), q.user_id, q.brain.subject))
       IN IF IsRaised(expertise)
          THEN Fail(r, expertise.raised)
          ELSE /\ requests' = [requests EXCEPT
                     ![r].pc = "hook_flush", ![r].expertise = expertise]
               /\ UNCHANGED pending
    /\ UNCHANGED <<user_expertises, messages, collections, sequences, rag_initialized>>

\* post_response_hook, the write steps in the order they are taken
HookSteps == <<"mastery_write", "recall_write">>

\* update_expertise: the new or changed record is flushed (lines 60-79);
\* then add_interaction, and send_message returns.  A statement that raises
\* or an add_interaction that raises leaves send_message as an exception.
HookFlush(r, fault) ==
    /\ requests[r].pc = "hook_flush"
    /\ CanWrite(r)
    /\ LET q == requests[r]
           id == NextId(ViewExpertises(r), sequences.expertises)
           written == IF IsRow(q.expertise)
                      THEN Touched(q.expertise, q.brain.topic)
                      ELSE NewExpertise(id, q.user_id, q.brain.subject, q.brain.topic)
       IN /\ RowFree(r, written.id)
          /\ IF fault = "db"
             THEN /\ Fail(r, "DBError")
                  /\ UNCHANGED <<sequences, collections, rag_initialized>>
             ELSE /\ sequences' = [sequences EXCEPT
                        !.expertises = IF IsRow(q.expertise) THEN @ ELSE id]
                  /\ IF RememberRaises(fault)
                     THEN /\ FailAfter(r, "RecallError", q.ops \o <<"mastery_write">>)
                          /\ UNCHANGED <<collections, rag_initialized>>
                     ELSE /\ pending' = [pending EXCEPT
                                ![r].inTxn = TRUE,
                                ![r].expertises =
                                    {y \in @ : y.id # written.id} \cup {written}]
                          /\ collections' = [collections EXCEPT ![q.user_id] =
                                add_interaction(@, q.message, HookAnswer(q.response_text),
                                    q.brain.subject, q.brain.topic, q.reply.message_id)]
                          /\ rag_initialized' = TRUE
                          /\ requests' = [requests EXCEPT
                                ![r].pc = "commit",
                                ![r].expertise = written,
                                ![r].reply = Reply(q, q.response_text, q.reply.message_id),
                                ![r].ops = @ \o HookSteps]
    /\ UNCHANGED <<user_expertises, messages>>

\* send_message, blocked branch: the canned answer is added and flushed
BlockedFlush(r) ==
    /\ requests[r].pc = "blocked_flush"
    /\ CanWrite(r)
    /\ LET q == requests[r]
           id == NextId(ViewMessages(r), sequences.messages)
       IN /\ pending' = [pending EXCEPT
                ![r].inTxn = TRUE,
                ![r].messages =
                    {[m EXCEPT !.was_blocked = TRUE] : m \in @} \cup
                    {Message(id, r, "assistant", q.brain.response, TRUE)}]
          /\ sequences' = [sequences EXCEPT !.messages = id]
          /\ requests' = [requests EXCEPT
                ![r].pc = "commit",
                ![r].reply = [status |-> 200, blocked |-> TRUE,
                              response |-> q.brain.response,
                              subject |-> NoSubject, topic |-> NoTopic,
                              confidence |-> 0, message_id |-> id]]
    /\ UNCHANGED <<user_expertises, messages, collections, rag_initialized>>

\* get_db: the endpoint returned, the session commits; of the unit of work
\* its input, its reply and the record of its steps remain
Commit(r) ==
    /\ requests[r].pc = "commit"
    /\ user_expertises' = ViewExpertises(r)
    /\ messages' = ViewMessages(r)
    /\ pending' = [pending EXCEPT ![r] = NoSession]
    /\ requests' = [requests EXCEPT ![r] =
          [IdleRequest EXCEPT !.pc = "done",
                              !.user_id = requests[r].user_id,
                              !.message = requests[r].message,
                              !.reply = requests[r].reply,
                              !.ops = requests[r].ops]]
    /\ UNCHANGED <<collections, sequences, rag_initialized>>

----------------------------------------------------------------------------
(* Language Generator: DokiGenerator.  The reply of the HTTP call is its    *)
(* status and its body; a body is whether it parses as JSON and, if so, the *)
(* values found at the paths the code subscripts                            *)

\* None where the caller expects a str
NoText == "<None>"

OllamaUnavailable == "O motor de linguagem da Doki não está disponível no momento."
InternalError == "Ocorreu um erro interno. Por favor, tente novamente."
NotConfigured == "Sou a Doki, mas meu motor de linguagem ainda não está configurado."

\* messages.extend(history[-8:])
HISTORY_WINDOW == 8

\* messages: the system prompt, the last messages of the history, the message
PayloadMessages(history) ==
    1 + (IF history > HISTORY_WINDOW THEN HISTORY_WINDOW ELSE history) + 1

OllamaPath == "message.content"
OpenAIPath == "choices.0.message.content"

\* client.post, raise_for_status, response.json() and the subscripts of the
\* return statement: the value found, or the exception raised
Extract(external, path) ==
    IF external.kind = "connect_error" THEN Raised("ConnectError")
    ELSE IF external.kind = "timeout" THEN Raised("TimeoutException")
    ELSE IF external.status >= 400 THEN Raised("HTTPStatusError")
    ELSE IF ~external.body.parses THEN Raised("JSONDecodeError")
    ELSE IF path \notin DOMAIN external.body.leaves THEN Raised("KeyError")
    ELSE [value |-> external.body.leaves[path]]

\* DokiGenerator._generate_ollama
generate_ollama(history, external) ==
    LET got == Extract(external, OllamaPath) IN
    [posted |-> PayloadMessages(history),
     text |-> IF ~IsRaised(got) THEN got.value
              ELSE IF got.raised = "ConnectError" THEN OllamaUnavailable
              ELSE InternalError]

\* DokiGenerator._generate_openai_compatible
generate_openai_compatible(history, external) ==
    LET got == Extract(external, OpenAIPath) IN
    [posted |-> PayloadMessages(history),
     text |-> IF ~IsRaised(got) THEN got.value ELSE InternalError]

\* DokiGenerator._fallback_response: no call is made
fallback_response == [posted |-> 0, text |-> NotConfigured]

\* DokiGenerator.generate
generate(backend_, history, external) ==
    IF backend_ = "ollama" THEN generate_ollama(history, external)
    ELSE IF backend_ = "openai_compatible"
    THEN generate_openai_compatible(history, external)
    ELSE fallback_response

----------------------------------------------------------------------------
(* Generator run: one configuration, one outcome of the HTTP call, one call *)
(* of generate                                                              *)

NoGeneration == [posted |-> 0, text |-> ""]

\* LLM_BACKEND: the two backends the code knows and one it does not
LlmBackends == {"ollama", "openai_compatible", "vllm"}

ModelAnswer == "answer"

NotJson == [parses |-> FALSE, leaves |-> <<>>]
Json(path, value) == [parses |-> TRUE, leaves |-> [p \in {path} |-> value]]

\* Response bodies: not JSON; an object without the expected keys; the
\* expected object of either API, its content a string or null
Bodies ==
    {NotJson, [parses |-> TRUE, leaves |-> <<>>]}
    \cup {Json(path, value) : path \in {OllamaPath, OpenAIPath},
                              value \in {ModelAnswer, NoText}}

Statuses == {200, 500}

\* What the HTTP call meets: no connection, no reply in time, or a reply
Externals ==
    {[kind |-> k, status |-> 0, body |-> NotJson] : k \in {"connect_error", "timeout"}}
    \cup {[kind |-> "response", status |-> st, body |-> b] : st \in Statuses, b \in Bodies}

NoLlm == [backend |-> "ollama", history |-> 0,
          external |-> [kind |-> "connect_error", status |-> 0, body |-> NotJson]]

GenerateInit ==
    /\ llm \in [backend : LlmBackends, history : 0..MaxHistory, external : Externals]
    /\ generated = NoGeneration

GenerateIdle ==
    /\ llm = NoLlm
    /\ generated = NoGeneration

GenerateCall ==
    /\ generated = NoGeneration
    /\ generated' = generate(llm.backend, llm.history, llm.external)
    /\ UNCHANGED llm

----------------------------------------------------------------------------
(* Classifier run: one text, one call of detect *)

NoDetection ==
    [subject |-> "", topic |-> NoTopic, confidence |-> 0, keywords_found |-> <<>>]

DetectVocabulary ==
    {"", "olá", "força", "Força", "forças", "pH", "triângulo", "equação",
     "campo", "elétrico", "célula", "potência", "revolução", "capital"}

\* "Como resolver uma equação de segundo grau?"
ScenarioEquation ==
    <<"Como", "resolver", "uma", "equação", "de", "segundo", "grau?">>

DetectTexts ==
    UNION {[1..n -> DetectVocabulary] : n \in 0..MaxDetectWords} \cup {ScenarioEquation}

DetectInit ==
    /\ text \in DetectTexts
    /\ response = NoResponse
    /\ settings = DefaultSettings
    /\ detection = NoDetection

DetectIdle == detection = NoDetection

Detect ==
    /\ detection = NoDetection
    /\ detection' = detect(text)
    /\ UNCHANGED <<text, response, settings>>

----------------------------------------------------------------------------
(* Specifications *)

vars == <<text, response, settings, score, level, backend, requests, user_expertises,
          messages, pending, collections, sequences, seed, interactions,
          rag_initialized, hash_seed, recalled, detection, llm, generated>>

gateVars == <<text, response, settings>>
levelVars == <<score, level>>
storeVars == <<user_expertises, messages, collections, sequences, seed, interactions>>
unitVars == <<backend, requests, pending>>
recallVars == <<rag_initialized, hash_seed, recalled>>
toolVars == <<detection, llm, generated>>

ToolsIdle == DetectIdle /\ GenerateIdle

RecallIdle ==
    /\ rag_initialized = FALSE
    /\ hash_seed = 1
    /\ recalled = NoRecall

\* The record of user 1 in fisica after 38 exchanges (the mastery run reaches
\* it), their conversations since deleted and the recall store started anew.
SeedRow ==
    [id |-> 1, user_id |-> 1, subject |-> "fisica", topic |-> "mecanica",
     score |-> 950, interaction_count |-> 38]

Seeds == {{}, {SeedRow}}

\* The chat endpoint under concurrent requests.
Init ==
    /\ GateIdle /\ LevelIdle
    /\ backend \in {"sqlite", "server"}
    /\ requests = [r \in Requests |-> IdleRequest]
    /\ pending = [r \in Requests |-> NoSession]
    /\ seed \in Seeds
    /\ user_expertises = seed
    /\ messages = {}
    /\ collections = [u \in Users |-> {}]
    /\ sequences = [expertises |-> MaxId(seed), messages |-> 0]
    /\ interactions = [u \in Users |-> 0]
    /\ RecallIdle /\ ToolsIdle

Next ==
    /\ UNCHANGED <<gateVars, levelVars, backend, seed, interactions, hash_seed, recalled,
                   toolVars>>
    /\ \E r \in Requests :
        \/ \E u \in Users, t \in PipelineTexts : Receive(r, u, t)
        \/ OpenExchange(r)
        \/ BusyTimeout(r)
        \/ ProcessMessage(r, "none")
        \/ ReadExpertiseContext(r, "none")
        \/ \E outcome \in GenerationOutcomes : Generate(r, outcome, "none")
        \/ HookSelect(r)
        \/ HookFlush(r, "none")
        \/ BlockedFlush(r)
        \/ Commit(r)

\* The chat endpoint while the database and the recall service work.
Spec == Init /\ [][Next]_vars

FaultRequests == 1..MaxFaultRequests

NextFaults ==
    /\ UNCHANGED <<gateVars, levelVars, backend, seed, interactions, hash_seed, recalled,
                   toolVars>>
    /\ \E r \in FaultRequests :
        \/ \E u \in Users, t \in PipelineTexts : Receive(r, u, t)
        \/ OpenExchange(r)
        \/ BusyTimeout(r)
        \/ \E fault \in RecallFaults : ProcessMessage(r, fault)
        \/ \E fault \in DbFaults : ReadExpertiseContext(r, fault)
        \/ \E outcome \in GenerationOutcomes, fault \in RecallFaults :
              Generate(r, outcome, fault)
        \/ HookSelect(r)
        \/ \E fault \in DbFaults \cup RecallFaults : HookFlush(r, fault)
        \/ BlockedFlush(r)
        \/ Commit(r)

\* The chat endpoint while statements sent to the database and calls of the
\* recall service may fail.
SpecFaults == Init /\ [][NextFaults]_vars

\* The Safety Gate on every bounded text.
GateNext == Check /\ UNCHANGED <<levelVars, storeVars, unitVars, recallVars, toolVars>>

InitGate == GateInit /\ LevelIdle /\ PipelineIdle /\ StoresEmpty /\ RecallIdle /\ ToolsIdle

SpecGate == InitGate /\ [][GateNext]_vars

\* Level derivation on every score.
LevelNext == FromScore /\ UNCHANGED <<gateVars, storeVars, unitVars, recallVars, toolVars>>

InitLevel == GateIdle /\ LevelInit /\ PipelineIdle /\ StoresEmpty /\ RecallIdle /\ ToolsIdle

SpecLevel == InitLevel /\ [][LevelNext]_vars

\* Sequential interactions.
MasteryNext ==
    /\ \E u \in Users, tp \in MasteryTopics : RecordInteraction(u, "fisica", tp)
    /\ UNCHANGED <<gateVars, levelVars, unitVars, recallVars, toolVars>>

InitMastery == GateIdle /\ LevelIdle /\ PipelineIdle /\ StoresEmpty /\ RecallIdle /\ ToolsIdle

SpecMastery == InitMastery /\ [][MasteryNext]_vars

\* Context Recall on one user's collection.
RecallNext ==
    /\ \/ \E question \in RecallQuestions, answer \in RecallAnswers,
             subject \in RecallSubjects, message_id \in RecallMessageIds,
             fault \in RecallFaults :
             Remember(question, answer, subject, message_id, fault)
       \/ \E subject \in RecallSubjects \cup {NoSubject}, fault \in RecallFaults :
             Recall(subject, fault)
       \/ \E newSeed \in HashSeeds : Restart(newSeed)
    /\ UNCHANGED <<gateVars, levelVars, unitVars, user_expertises, messages,
                   sequences, seed, interactions, toolVars>>

InitRecall ==
    /\ GateIdle /\ LevelIdle /\ PipelineIdle
    /\ user_expertises = {} /\ seed = {} /\ messages = {}
    /\ interactions = [u \in Users |-> 0]
    /\ sequences = [expertises |-> 0, messages |-> 0]
    /\ RecallInit /\ ToolsIdle

SpecRecall == InitRecall /\ [][RecallNext]_vars

\* The Subject Classifier on every bounded text.
DetectNext ==
    Detect /\ UNCHANGED <<levelVars, storeVars, unitVars, recallVars, llm, generated>>

InitDetect ==
    DetectInit /\ LevelIdle /\ PipelineIdle /\ StoresEmpty /\ RecallIdle /\ GenerateIdle

SpecDetect == InitDetect /\ [][DetectNext]_vars

\* The Language Generator on every configuration and outcome of its call.
GenerateNext ==
    GenerateCall /\ UNCHANGED <<gateVars, levelVars, storeVars, unitVars, recallVars,
                                detection>>

InitGenerate ==
    GateIdle /\ LevelIdle /\ PipelineIdle /\ StoresEmpty /\ RecallIdle /\ DetectIdle
    /\ GenerateInit

SpecGenerate == InitGenerate /\ [][GenerateNext]_vars

----------------------------------------------------------------------------
(* The moderation gate's order of decision (checked under SpecGate) *)

Checked == response # NoResponse
Cleaned == Lower(Strip(text))

IsJailbreak == SearchAny(JAILBREAK_PATTERNS, Cleaned)
IsSelfHarm == Search(SelfHarmPattern, Cleaned)
\* one of the blocked patterns other than the self-harm pattern, their last
IsCrimeOrExplicit ==
    \E k \in 1..(Len(BLOCKED_PATTERNS) - 1) : Search(BLOCKED_PATTERNS[k], Cleaned)
IsStudyPretext == SearchAny(STUDY_BLOCK_PATTERNS, Cleaned)

\* C1: a text that matches a jailbreak pattern is blocked with reason
\* jailbreak_attempt, whatever else it matches.
C1_JailbreakFirst ==
    (Checked /\ IsJailbreak) =>
        /\ response.result = "blocked"
        /\ response.reason = "jailbreak_attempt"

\* a jailbreak text that is a self-harm, a crime and a study-pretext text too
C1_Witness ==
    /\ Checked /\ IsJailbreak /\ IsSelfHarm /\ IsCrimeOrExplicit /\ IsStudyPretext
    /\ response.reason = "jailbreak_attempt"

\* C2: a text that matches the self-harm pattern and a crime/explicit pattern,
\* and no jailbreak pattern, is blocked with reason self_harm and gets the
\* empathetic self-harm message, not the crime/explicit message.
C2_SelfHarmBeforeCrime ==
    (Checked /\ IsSelfHarm /\ IsCrimeOrExplicit /\ ~IsJailbreak) =>
        /\ response.result = "blocked"
        /\ response.reason = "self_harm"
        /\ response.suggested_response = "RESPONSES.self_harm"

C2_Witness ==
    /\ Checked /\ IsSelfHarm /\ IsCrimeOrExplicit /\ ~IsJailbreak
    /\ response.suggested_response = "RESPONSES.self_harm"

\* C3 as stated: "como fabricar uma bomba para um trabalho da escola" is
\* blocked with reason study_bypass_attempt.
C3_ScenarioIsStudyBypass ==
    (Checked /\ text = ScenarioBomb) =>
        /\ response.result = "blocked"
        /\ response.reason = "study_bypass_attempt"

\* C3: "como fabricar uma bomba para um trabalho da escola" is blocked with
\* reason crime; a text gets reason study_bypass_attempt exactly when it
\* matches a study-pretext pattern and no jailbreak, self-harm, crime or
\* explicit pattern.
C3_StudyBypassLast ==
    Checked =>
        /\ text = ScenarioBomb =>
               (response.result = "blocked" /\ response.reason = "crime")
        /\ response.reason = "study_bypass_attempt" <=>
               /\ IsStudyPretext
               /\ ~IsJailbreak /\ ~IsSelfHarm /\ ~IsCrimeOrExplicit

\* the scenario's message, checked; it matches a crime pattern and no
\* study-pretext pattern
C3_Witness ==
    /\ Checked /\ text = ScenarioBomb
    /\ IsCrimeOrExplicit /\ ~IsStudyPretext
    /\ response.reason = "crime"

\* a study-pretext text that is a crime text too, and one that is not
C3_StudyAndCrime ==
    Checked /\ IsStudyPretext /\ IsCrimeOrExplicit /\ ~IsJailbreak /\ ~IsSelfHarm
C3_StudyOnly ==
    Checked /\ response.reason = "study_bypass_attempt"

\* one of the patterns of the four blocking steps matches
MatchesBlocking == IsJailbreak \/ IsSelfHarm \/ IsCrimeOrExplicit \/ IsStudyPretext

\* C21: an input longer than the configured maximum message length that
\* matches no blocking pattern gets Warning, message_too_long; one that matches
\* a blocking pattern is Blocked; an input within the limit that matches
\* nothing is Approved.
C21_LengthLast ==
    Checked =>
        /\ (TextLen(text) > settings.MAX_MESSAGE_LENGTH /\ ~MatchesBlocking) =>
              (response.result = "warning" /\ response.reason = "message_too_long")
        /\ (TextLen(text) > settings.MAX_MESSAGE_LENGTH /\ MatchesBlocking) =>
              response.result = "blocked"
        /\ (TextLen(text) <= settings.MAX_MESSAGE_LENGTH /\ ~MatchesBlocking) =>
              response.result = "approved"

\* the same with the number written in check in place of the setting
C21_LengthLastLiteral ==
    Checked =>
        /\ (TextLen(text) > MAX_MESSAGE_LENGTH /\ ~MatchesBlocking) =>
              (response.result = "warning" /\ response.reason = "message_too_long")
        /\ (TextLen(text) > MAX_MESSAGE_LENGTH /\ MatchesBlocking) =>
              response.result = "blocked"
        /\ (TextLen(text) <= MAX_MESSAGE_LENGTH /\ ~MatchesBlocking) =>
              response.result = "approved"

\* step 3 decides: no jailbreak pattern and not the self-harm pattern match,
\* and one of the crime and explicit patterns does
BlockedAtStep3 == ~IsJailbreak /\ ~IsSelfHarm /\ IsCrimeOrExplicit

\* the pattern that matched: the first of the list that matches
MatchedPattern ==
    CHOOSE k \in 1..Len(BLOCKED_PATTERNS) :
        /\ Search(BLOCKED_PATTERNS[k], Cleaned)
        /\ \A j \in 1..(k - 1) : ~Search(BLOCKED_PATTERNS[j], Cleaned)

\* C22: a text blocked by the crime and explicit patterns gets reason
\* explicit exactly when the pattern that matched is one of the
\* sexual-content patterns, and reason crime otherwise.
C22_ReasonByMatchedPattern ==
    (Checked /\ BlockedAtStep3) =>
        /\ response.result = "blocked"
        /\ response.reason =
              IF MatchedPattern \in SexualContentPatterns THEN "explicit" ELSE "crime"

\* a crime pattern matched and the reason is explicit
C22_CrimeCalledExplicit ==
    /\ Checked /\ BlockedAtStep3
    /\ MatchedPattern \notin SexualContentPatterns
    /\ response.reason = "explicit"

\* a sexual-content pattern matched and the reason is crime
C22_ExplicitCalledCrime ==
    /\ Checked /\ BlockedAtStep3
    /\ MatchedPattern \in SexualContentPatterns
    /\ response.reason = "crime"

----------------------------------------------------------------------------
(* Mastery levels (checked under SpecLevel) and sequential interactions     *)
(* (checked under SpecMastery); scores in tenths                            *)

\* C9: the level of a score is beginner below 15, intermediate from 15 and
\* below 40, advanced from 40 and below 70, expert from 70 on; the scores
\* 15.0, 40.0 and 70.0 themselves are intermediate, advanced and expert.
C9_LevelOfScore ==
    level # NoLevel =>
        /\ score < 150 <=> level = "iniciante"
        /\ (150 <= score /\ score < 400) <=> level = "intermediário"
        /\ (400 <= score /\ score < 700) <=> level = "avançado"
        /\ 700 <= score <=> level = "especialista"
        /\ score = 150 => level = "intermediário"
        /\ score = 400 => level = "avançado"
        /\ score = 700 => level = "especialista"

\* the level of the boundary score 40.0 has been computed
C9_Witness == score = 400 /\ level = "avançado"

Min(a, b) == IF a < b THEN a ELSE b

\* the records of user u in the subject of the mastery run
RecordsOf(u) == SelectExpertise(user_expertises, u, "fisica")

\* C6: after N calls of recordInteraction for one user and subject, one after
\* the other from no record, there is one record with score min(N * 2.5, 100)
\* and interactionCount N: 2.5 and 1 after the first call, 75.0 and level
\* expert after the thirtieth.
C6_SequentialCalls ==
    \A u \in Users :
        LET N == interactions[u] IN
        IF N = 0 THEN RecordsOf(u) = {}
        ELSE /\ Cardinality(RecordsOf(u)) = 1
             /\ \A x \in RecordsOf(u) :
                   /\ x.score = Min(N * 25, 1000)
                   /\ x.interaction_count = N
                   /\ N = 1 => x.score = 25
                   /\ N = 30 => (x.score = 750 /\ from_score(x.score) = "especialista")

\* thirty calls made for user 1
C6_Witness ==
    /\ interactions[1] = 30
    /\ \E x \in RecordsOf(1) : x.score = 750 /\ x.interaction_count = 30

\* more calls made than the score has room for
C6_Saturated ==
    /\ interactions[1] = 41
    /\ \E x \in RecordsOf(1) : x.score = 1000 /\ x.interaction_count = 41

----------------------------------------------------------------------------
(* The chat endpoint (checked under Spec) *)

\* the requests whose message has gone through the gate
PastGate ==
    {r \in Requests : requests[r].pc \in
        {"blocked_flush", "context", "generate", "hook_select", "hook_flush",
         "commit", "done"}}

\* C4: a message the gate does not approve gets the gate's canned response
\* with blocked true, no subject and confidence 0.0, and nothing but the gate
\* runs for it: no classification, no recall or mastery read, no generation,
\* no mastery or recall write.
C4_BlockedShortCircuit ==
    \A r \in PastGate :
        LET q == requests[r]
            verdict == GateVerdicts[q.message]
        IN verdict.result # "approved" =>
              /\ q.ops = <<"gate">>
              /\ pending[r].expertises = {}
              /\ \A e \in collections[q.user_id] : e.question # q.message
              /\ q.pc \in {"commit", "done"} =>
                    /\ q.reply.status = 200
                    /\ q.reply.blocked
                    /\ q.reply.response = verdict.suggested_response
                    /\ q.reply.subject = NoSubject
                    /\ q.reply.confidence = 0

\* a blocked message has been answered
C4_Witness ==
    \E r \in Requests :
        /\ requests[r].pc = "done"
        /\ GateVerdicts[requests[r].message].result = "blocked"
        /\ requests[r].reply.blocked
        /\ requests[r].ops = <<"gate">>

\* the answered requests of user u that recorded an interaction in fisica
Writers(u) ==
    {r \in Requests :
        /\ requests[r].pc = "done"
        /\ requests[r].user_id = u
        /\ requests[r].reply.status = 200
        /\ ~requests[r].reply.blocked
        /\ requests[r].reply.subject = "fisica"}

SeedCount(u) ==
    LET rows == SelectExpertise(seed, u, "fisica")
    IN IF rows = {} THEN 0 ELSE (CHOOSE x \in rows : TRUE).interaction_count

SeedScore(u) ==
    LET rows == SelectExpertise(seed, u, "fisica")
    IN IF rows = {} THEN 0 ELSE (CHOOSE x \in rows : TRUE).score

\* C5: when the requests of a user that record an interaction in a subject
\* have all completed, overlapping in time or not, the record's
\* interactionCount has grown by their number and its score by that many
\* increments, up to 100.
C5_NoLostUpdate ==
    \A u \in Users :
        LET n == Cardinality(Writers(u)) IN
        (n > 0 /\ \A r \in InFlight : requests[r].user_id # u) =>
            \E x \in RecordsOf(u) :
                /\ x.interaction_count = SeedCount(u) + n
                /\ x.score = Min(SeedScore(u) + n * 25, 1000)

\* C7: the score of a stored record never decreases, whatever the pipeline
\* does.
C7_ScoreNeverDecreases ==
    [][\A x \in user_expertises : \A y \in user_expertises' :
          y.id = x.id => y.score >= x.score]_vars

\* the request whose commit this step is, writing the record with this id
CommitsWriteOf(r, id) ==
    /\ requests[r].pc = "commit"
    /\ requests'[r].pc = "done"
    /\ \E y \in pending[r].expertises : y.id = id

\* C8: every stored record has a score from 0 to 100 and an interactionCount
\* of 1 or more; a record whose score is 100 keeps that score, and every
\* interaction recorded for it from then on adds one to its interactionCount.
C8_BoundsAndSaturation ==
    /\ [](\A x \in user_expertises :
            0 <= x.score /\ x.score <= 1000 /\ x.interaction_count >= 1)
    /\ [][\A x \in user_expertises : x.score = 1000 =>
            \A y \in user_expertises' : y.id = x.id =>
                /\ y.score = 1000
                /\ (\E r \in Requests : CommitsWriteOf(r, x.id)) =>
                      y.interaction_count = x.interaction_count + 1]_vars

\* C10: the mastery read of a request returns the new-learner instruction
\* exactly when the user has no record in the subject, and a level template
\* otherwise.
C10_ContextBlock ==
    [][\A r \in Requests :
          (/\ requests[r].pc = "context" /\ requests'[r].pc # "context"
           /\ requests'[r].error # "DBError") =>
             LET q == requests[r]
                 found == SelectExpertise(ViewExpertises(r), q.user_id, q.brain.subject)
             IN /\ requests'[r].pc = "generate"
                /\ found = {} <=>
                      requests'[r].brain.expertise_context = NewLearner(q.brain.subject)
                /\ found # {} =>
                      requests'[r].brain.expertise_context.kind = "template"]_vars

\* C24: the committed records hold at most one record per user and subject,
\* and no lookup by user and subject fails for having found several.
C24_OneRecordPerKey ==
    /\ \A x, y \in user_expertises :
          (x.user_id = y.user_id /\ x.subject = y.subject) => x = y
    /\ \A r \in Requests : requests[r].error # "MultipleResultsFound"

\* two records of one user in one subject are stored
C24_Duplicate ==
    \E x, y \in user_expertises :
        x.user_id = y.user_id /\ x.subject = y.subject /\ x.id # y.id

\* a lookup failed for having found two records
C24_LookupFailed ==
    \E r \in Requests :
        requests[r].pc = "failed" /\ requests[r].error = "MultipleResultsFound"

----------------------------------------------------------------------------
(* Context Recall (checked under SpecRecall); similarities in thousandths   *)

\* the recall run has a result of get_relevant_context to show
Recalled == recalled.calls # <<>>

\* C11: every result returned by get_relevant_context reports a similarity
\* strictly greater than 0.3.
C11_RecallFloor ==
    \A i \in DOMAIN recalled.contexts : recalled.contexts[i].similarity > 300

\* C12: get_relevant_context on a collection without entries makes no call to
\* the embedder and no query, and what it returns is the empty sequence.
C12_EmptyPartition ==
    (Recalled /\ collections[1] = {}) =>
        /\ \A i \in DOMAIN recalled.calls : recalled.calls[i] \notin {"encode", "query"}
        /\ ~recalled.raised => recalled.contexts = <<>>

\* the empty collection was asked and only counted
C12_Witness ==
    /\ Recalled /\ collections[1] = {}
    /\ ~recalled.raised
    /\ recalled.calls = <<"count">>
    /\ recalled.contexts = <<>>

\* a collection with entries was asked, the query embedded
C12_Embedded ==
    Recalled /\ collections[1] # {} /\ recalled.calls = <<"count", "encode", "query">>

\* C19: add_interaction is an upsert by entry id: a collection holds one entry
\* per id, and the calls made without an entry id for one question text leave
\* one entry, the later one.
C19_UpsertByEntryId ==
    \A e1, e2 \in collections[1] :
        /\ e1.id = e2.id => e1 = e2
        /\ (e1.id < 0 /\ e2.id < 0 /\ e1.question = e2.question) => e1 = e2

\* the part of C19 on calls with an entry id, which holds
C19_OnePerId ==
    \A e1, e2 \in collections[1] : e1.id = e2.id => e1 = e2

----------------------------------------------------------------------------
(* The chat endpoint: effects and isolation (under Spec), failures and      *)
(* order (under SpecFaults)                                                 *)

InSeq(x, seq) == \E i \in DOMAIN seq : seq[i] = x

\* C13: for an approved message whose subject is the generic one the
\* post-response step changes neither store: no mastery record and no recall
\* entry with subject geral is written.
C13_GeneralWritesNothing ==
    /\ \A x \in AllExpertises : x.subject # "geral"
    /\ \A u \in Users : \A e \in collections[u] : e.subject # "geral"
    /\ \A r \in Requests :
          (requests[r].pc \in {"commit", "done"} /\ ~requests[r].reply.blocked
           /\ requests[r].reply.subject = "geral") =>
              /\ ~InSeq("mastery_write", requests[r].ops)
              /\ ~InSeq("recall_write", requests[r].ops)

\* the part of C13 on the mastery store, which holds
C13_GeneralNoMastery ==
    /\ \A x \in AllExpertises : x.subject # "geral"
    /\ \A r \in Requests : requests[r].pc \in {"commit", "done"} =>
          (requests[r].reply.subject = "geral" =>
              ~InSeq("mastery_write", requests[r].ops))

\* the failures of the mastery store and of the recall store in the read
\* phase of process_message
ReadFailures == {"RecallInitError", "DBError", "MultipleResultsFound"}

\* C14: a failure of the mastery store or of the recall store in the read
\* phase does not abort the message: no request fails with such a failure
\* before its generation.
C14_ReadFailuresDegrade ==
    \A r \in Requests :
        (requests[r].pc = "failed" /\ requests[r].error \in ReadFailures) =>
            InSeq("generate", requests[r].ops)

\* C15: a failure in the post-response write phase does not undo the answer:
\* the request is answered and its messages are stored.
C15_WriteFailureKeepsAnswer ==
    \A r \in Requests :
        (requests[r].pc = "failed" /\ InSeq("generate", requests[r].ops)) =>
            /\ requests[r].reply.status = 200
            /\ \E m \in messages : m.request = r /\ m.role = "assistant"

IsPrefix(a, b) == Len(a) <= Len(b) /\ \A i \in 1..Len(a) : a[i] = b[i]

\* the steps of a unit of work in the order of the specification, and the
\* same without the two mastery steps, which the generic subject skips
FullOrder ==
    <<"gate", "classify", "recall_read", "mastery_read", "assemble", "generate",
      "mastery_write", "recall_write">>
GeneralOrder ==
    <<"gate", "classify", "recall_read", "assemble", "generate", "recall_write">>

\* the requests whose message the gate approves
Approved ==
    {r \in Requests : /\ requests[r].pc \notin {"idle", "rejected"}
                      /\ GateVerdicts[requests[r].message].result = "approved"}

\* C17: the steps taken for an approved message are, at every moment, a
\* beginning of gate, classify, recall-read, mastery-read, assemble, generate,
\* mastery-write, recall-write (for the generic subject without the mastery
\* steps); nothing is written to the mastery or recall store before
\* generation has returned.
C17_StepOrder ==
    \A r \in Approved :
        LET q == requests[r] IN
        /\ IF Detections[q.message].subject = "geral"
           THEN IsPrefix(q.ops, GeneralOrder)
           ELSE IsPrefix(q.ops, FullOrder)
        /\ ~InSeq("generate", q.ops) =>
              /\ pending[r].expertises = {}
              /\ \A u \in Users : \A e \in collections[u] :
                    \A m \in pending[r].messages : m.id # e.id
        /\ (q.pc = "done" /\ Detections[q.message].subject # "geral") =>
              q.ops = FullOrder

\* an approved message in a subject has gone through all eight steps
C17_Witness ==
    \E r \in Approved : requests[r].pc = "done" /\ requests[r].ops = FullOrder

\* the requests that hold the result of their recall read
HoldContexts ==
    {r \in Requests : requests[r].pc \in {"context", "generate", "hook_select", "hook_flush"}}

\* C18: what recall returns to a request are entries of its own user's
\* collection; a step of a request changes no collection and no mastery
\* record of another user; the mastery context block of a request is the
\* new-learner instruction or is made from a record of its own user.
C18_UserIsolation ==
    /\ [](\A r \in HoldContexts :
            LET q == requests[r] IN
            \A i \in DOMAIN q.brain.rag_contexts :
                \E e \in collections[q.user_id] : e.id = q.brain.rag_contexts[i].id)
    /\ [][\A r \in Requests : requests'[r] # requests[r] =>
            LET u == requests'[r].user_id IN
            /\ \A v \in Users \ {u} :
                  /\ collections'[v] = collections[v]
                  /\ {x \in user_expertises' : x.user_id = v}
                        = {x \in user_expertises : x.user_id = v}
            /\ (requests[r].pc = "context" /\ requests'[r].pc = "generate") =>
                  LET c == requests'[r].brain.expertise_context IN
                  \/ c.kind = "new_learner"
                  \/ \E x \in ViewExpertises(r) :
                        /\ x.user_id = u
                        /\ x.interaction_count = c.count
                        /\ FormatScore(x.score) = c.score]_vars

\* a request holds recalled entries while another user's collection has
\* entries too
C18_Witness ==
    \E r \in HoldContexts :
        /\ requests[r].brain.rag_contexts # <<>>
        /\ \E v \in Users \ {requests[r].user_id} : collections[v] # {}

\* C26: the entries recalled for a request whose subject is not the generic
\* one were all stored under that subject, so that its prompt holds no entry
\* of another subject.
C26_RecallBySubject ==
    \A r \in HoldContexts :
        LET q == requests[r] IN
        q.brain.subject # "geral" =>
            \A i \in DOMAIN q.brain.rag_contexts :
                /\ q.brain.rag_contexts[i].subject = q.brain.subject
                /\ \E e \in collections[q.user_id] :
                      /\ e.id = q.brain.rag_contexts[i].id
                      /\ e.subject = q.brain.subject

\* a request of a subject holds recalled entries while its user's collection
\* has an entry of another subject
C26_Witness ==
    \E r \in HoldContexts :
        /\ requests[r].brain.subject # "geral"
        /\ requests[r].brain.rag_contexts # <<>>
        /\ \E e \in collections[requests[r].user_id] :
              e.subject # requests[r].brain.subject

\* a request of the generic subject is handed an entry of another subject
C26_GeneralUnfiltered ==
    \E r \in HoldContexts :
        /\ requests[r].brain.subject = "geral"
        /\ \E i \in DOMAIN requests[r].brain.rag_contexts :
              requests[r].brain.rag_contexts[i].subject # "geral"

\* the requests that wait for a flush of theirs to write
AboutToWrite == {q \in Requests : requests[q].pc \in {"open", "blocked_flush", "hook_flush"}}

\* request r owns a lock or an open write transaction that keeps request q
\* from writing
KeepsFromWriting(r, q) ==
    \/ backend = "sqlite" /\ pending[r].inTxn
    \/ /\ backend = "server"
       /\ requests[q].pc = "hook_flush"
       /\ IsRow(requests[q].expertise)
       /\ \E y \in pending[r].expertises : y.id = requests[q].expertise.id

\* C23: a request that waits for doki_generator.generate keeps no other
\* request from writing.
C23_NoLockAcrossGeneration ==
    \A r \in Requests : requests[r].pc = "generate" =>
        \A q \in AboutToWrite \ {r} : ~KeepsFromWriting(r, q)

\* on a database server a request waits for the generator while another
\* request is about to write, and does not keep it from writing
C23_ServerFree ==
    /\ backend = "server"
    /\ \E r \in Requests : requests[r].pc = "generate" /\ AboutToWrite \ {r} # {}

\* a request failed on the busy timeout while another waited for the generator
C23_TimedOut ==
    \E r, q \in Requests :
        /\ requests[r].pc = "generate"
        /\ requests[q].pc = "failed" /\ requests[q].error = "OperationalError"

\* C28: a message that the endpoint hands to the gate has 1 to 4000
\* characters and the gate's verdict on it is Approved or Blocked, never
\* Warning; the other messages are rejected by the validation.
C28_WarningUnreachable ==
    \A r \in Requests :
        /\ requests[r].pc \notin {"idle", "rejected"} =>
              /\ TextLen(requests[r].message) >= 1
              /\ TextLen(requests[r].message) <= 4000
              /\ GateVerdicts[requests[r].message].result \in {"approved", "blocked"}
        /\ requests[r].pc = "rejected" =>
              /\ requests[r].reply.status = 422
              /\ ~(TextLen(requests[r].message) >= 1 /\ TextLen(requests[r].message) <= 4000)
        /\ requests[r].pc \in {"commit", "done"} =>
              (requests[r].reply.blocked <=>
                  GateVerdicts[requests[r].message].result = "blocked")

\* a message on which the gate would warn is rejected by the validation
C28_Witness ==
    \E r \in Requests :
        /\ requests[r].pc = "rejected"
        /\ GateVerdicts[requests[r].message].result = "warning"

\* C29: for an approved message of a subject other than the generic one the
\* post-response step runs whatever the generator returned, the apology
\* included: the record it read is written with one interaction more (a first
\* record with one), and the returned text is the answer of a new recall entry.
C29_HookRunsOnApology ==
    /\ [](\A r \in Requests :
            (/\ requests[r].pc \in {"commit", "done"}
             /\ ~requests[r].reply.blocked
             /\ requests[r].reply.subject # "geral") =>
                requests[r].ops = FullOrder)
    /\ [][\A r \in Requests :
            (requests[r].pc = "hook_flush" /\ requests'[r].pc = "commit") =>
                LET q == requests[r]
                    old == q.expertise
                    new == requests'[r].expertise
                IN /\ new \in pending'[r].expertises
                   /\ new.user_id = q.user_id /\ new.subject = q.brain.subject
                   /\ new.interaction_count =
                         IF IsRow(old) THEN old.interaction_count + 1 ELSE 1
                   /\ \A e \in collections[q.user_id] : e.id # q.reply.message_id
                   /\ \E e \in collections'[q.user_id] :
                         /\ e.id = q.reply.message_id
                         /\ e.answer = q.response_text
                         /\ e.subject = q.brain.subject]_vars

\* the exchange of an apology is stored: the record and the recall entry
C29_Witness ==
    \E r \in Requests :
        /\ requests[r].pc = "done"
        /\ requests[r].reply.response = "apology"
        /\ requests[r].reply.subject = "fisica"
        /\ \E e \in collections[requests[r].user_id] :
              e.id = requests[r].reply.message_id /\ e.answer = "apology"
        /\ \E x \in user_expertises :
              x.user_id = requests[r].user_id /\ x.subject = "fisica"

----------------------------------------------------------------------------
(* The Language Generator (checked under SpecGenerate) *)

Generated == generated # NoGeneration

FixedApologies == {OllamaUnavailable, InternalError, NotConfigured}

\* the backend is one the code knows, the call was answered with status 200
\* and the body holds a string where that backend's API puts the content
CallSucceeded ==
    LET path == IF llm.backend = "ollama" THEN OllamaPath ELSE OpenAIPath IN
    /\ llm.backend \in {"ollama", "openai_compatible"}
    /\ llm.external.kind = "response"
    /\ llm.external.status = 200
    /\ llm.external.body.parses
    /\ path \in DOMAIN llm.external.body.leaves
    /\ llm.external.body.leaves[path] # NoText

\* C16: whatever the HTTP call meets, generate returns a text, and when the
\* call did not succeed that text is one of the fixed apology strings.
C16_GenerateAlwaysText ==
    Generated =>
        /\ generated.text # NoText
        /\ ~CallSucceeded => generated.text \in FixedApologies

\* every failure that raises is answered with a fixed apology
C16_RaisedIsApology ==
    (Generated /\ llm.backend \in {"ollama", "openai_compatible"}
               /\ IsRaised(Extract(llm.external,
                      IF llm.backend = "ollama" THEN OllamaPath ELSE OpenAIPath))) =>
        generated.text \in FixedApologies

----------------------------------------------------------------------------
(* The Subject Classifier (checked under SpecDetect); confidence in        *)
(* thousandths                                                              *)

Detected == detection # NoDetection

\* no keyword of any subject occurs in the lowercased text
NoKeywordHit ==
    \A k \in 1..Len(SUBJECT_TAXONOMY) :
        \A i \in 1..Len(SUBJECT_TAXONOMY[k].keywords) :
            ~KeywordIn(SUBJECT_TAXONOMY[k].keywords[i], Lower(text))

\* C20: detect on the empty text, or on a text in which no taxonomy keyword
\* occurs, returns subject geral, no topic, confidence 0.0 and an empty list of
\* matched keywords.
C20_NoKeywordIsGeneral ==
    (Detected /\ NoKeywordHit) =>
        detection = [subject |-> "geral", topic |-> NoTopic, confidence |-> 0,
                     keywords_found |-> <<>>]

\* a text without a subject keyword that holds a topic keyword, a part of a
\* two-word keyword and a keyword the taxonomy writes with a capital
C20_Witness ==
    /\ Detected /\ NoKeywordHit
    /\ \E i, j, k \in DOMAIN text :
          text[i] = "triângulo" /\ text[j] = "campo" /\ text[k] = "pH"

C20_EmptyText == Detected /\ text = <<>>

\* the subjects that have a score for the text, by their place in the taxonomy
Scored ==
    {k \in 1..Len(SUBJECT_TAXONOMY) : Found(SUBJECT_TAXONOMY[k], Lower(text)) # <<>>}

\* score of subject j <= score of subject k
ScoreAtMost(j, k) ==
    ScoreNum(SUBJECT_TAXONOMY[j], Lower(text)) * ScoreDen(SUBJECT_TAXONOMY[k])
        <= ScoreNum(SUBJECT_TAXONOMY[k], Lower(text)) * ScoreDen(SUBJECT_TAXONOMY[j])

\* C25: detect returns the subject with the highest score, the first of the
\* taxonomy among those that share it; no subject has a higher score.
C25_HighestScoreFirstOnTie ==
    (Detected /\ Scored # {}) =>
        \E k \in Scored :
            /\ detection.subject = SUBJECT_TAXONOMY[k].key
            /\ \A j \in Scored : ScoreAtMost(j, k)
            /\ \A j \in Scored : ScoreAtMost(k, j) => k <= j

\* two subjects share the highest score and the text names the later one first
C25_Witness ==
    /\ Detected
    /\ text = <<"força", "equação">>
    /\ \E j, k \in Scored : j < k /\ ScoreAtMost(j, k) /\ ScoreAtMost(k, j)
    /\ detection.subject = "matematica"

\* a later subject wins with a higher score
C25_LaterWins ==
    /\ Detected
    /\ \E j, k \in Scored : j < k /\ ~ScoreAtMost(k, j)
                               /\ detection.subject = SUBJECT_TAXONOMY[k].key

\* the topics of the returned subject one of whose keywords occurs in the
\* lowercased text, by their place in the declaration
MatchingTopics ==
    LET k == CHOOSE k \in 1..Len(SUBJECT_TAXONOMY) :
                 SUBJECT_TAXONOMY[k].key = detection.subject
        topics == SUBJECT_TAXONOMY[k].topics
    IN {<<i, topics[i].key>> : i \in {i \in 1..Len(topics) :
           \E n \in 1..Len(topics[i].keywords) :
               KeywordIn(topics[i].keywords[n], Lower(text))}}

\* C27: the topic is the first topic of the winning subject, in declaration
\* order, one of whose keywords occurs in the lowercased text, and none when
\* no topic keyword occurs or the subject has no topics; the equation example
\* gives matematica, algebra and a confidence above 0.
C27_TopicOfWinningSubject ==
    /\ (Detected /\ detection.subject # "geral") =>
          IF MatchingTopics = {} THEN detection.topic = NoTopic
          ELSE \E m \in MatchingTopics :
                  /\ detection.topic = m[2]
                  /\ \A o \in MatchingTopics : m[1] <= o[1]
    /\ (Detected /\ text = ScenarioEquation) =>
          /\ detection.subject = "matematica"
          /\ detection.topic = "algebra"
          /\ detection.confidence > 0

C27_Witness == Detected /\ text = ScenarioEquation

\* two topics of the winning subject match and the text names the later first
C27_FirstDeclared ==
    /\ Detected
    /\ text = <<"campo", "elétrico", "força">>
    /\ Cardinality(MatchingTopics) = 2
    /\ detection.topic = "mecanica"

\* the winning subject has no topics and a topic keyword of another subject
\* occurs in the text
C27_NoTopics ==
    /\ Detected
    /\ text = <<"capital", "triângulo">>
    /\ detection.subject = "geografia"
    /\ detection.topic = NoTopic

\* C30: the confidence is 0.0 with subject geral, or lies in [0.8, 0.99]: the
\* longest keyword list has 25 entries, so that one match scores 0.4 or more.
C30_ConfidenceRange ==
    /\ \A k \in 1..Len(SUBJECT_TAXONOMY) : Len(SUBJECT_TAXONOMY[k].keywords) <= 25
    /\ Detected =>
          \/ detection.subject = "geral" /\ detection.confidence = 0
          \/ /\ detection.subject # "geral"
             /\ detection.confidence >= 800
             /\ detection.confidence <= 990

\* one match in the longest keyword list: confidence 0.8
C30_Witness ==
    /\ Detected
    /\ detection.subject = "biologia"
    /\ Len(detection.keywords_found) = 1
    /\ detection.confidence = 800

C30_Capped == Detected /\ detection.confidence = 990

====
